---------------------------- MODULE Spec2Model ----------------------------
(***************************************************************************)
(* A model of the Mythiq assistant's conversational engine:                *)
(*   - SmartEmotionalEngine, SmartIntentClassifier, SmartResponseEngine,   *)
(*     SmartContextManager and SmartLightweightBrain (brain_advanced.py),  *)
(*   - the /api/chat handler (app.py),                                     *)
(*   - MythiqMemorySystem, the store of remembered conversations           *)
(*     (memory_system.py).                                                 *)
(*                                                                         *)
(* Modelling conventions.                                                  *)
(*   Text.  Every test the code makes on a message is a substring test     *)
(*   (`pattern in text`), so a text is represented by the set `sub` of the *)
(*   patterns of the program's tables that occur in it, plus the polarity  *)
(*   the sentiment library reports for it.  A value that is not a string   *)
(*   (message = None) has isStr = FALSE.                                   *)
(*   Floats.  A float x is the integer x * One; every product and quotient *)
(*   the modelled inputs produce is exact in that unit.  A smoothed        *)
(*   emotional_patterns value is held as the intensities it averages.      *)
(*   Objects.  UserProfile and ConversationContext objects live in the     *)
(*   heaps `profiles` and `contexts`; the dictionaries hold references     *)
(*   (heap indices), as Python's do.                                       *)
(*   Control.  Each process_message call is a thread of control with a     *)
(*   program counter; Step executes the code at that counter.  The         *)
(*   sequential specifications run a call to its return in one action,     *)
(*   the concurrent one interleaves the steps of several calls.            *)
(***************************************************************************)
EXTENDS Integers, Sequences, FiniteSets, TLC

(***************************************************************************)
(* Bounds of the model.                                                    *)
(***************************************************************************)
MaxCalls == 2        \* calls in a run of Spec and SpecRestart
MaxLongCalls == 7    \* calls in a run of SpecLong
MaxConcCalls == 2    \* concurrent calls (threads) in a run of SpecConc
ManyStart == 1000    \* users already served when a run of SpecMany starts
MaxManyUsers == 1100 \* distinct users served when a run of SpecMany ends
MaxMemoryCalls == 3  \* calls after the history has filled in a run of SpecMemory
MaxEvictCalls == 2   \* calls in a run of SpecEvict
MaxScoreCalls == 2    \* calls in a run of SpecScore
MaxTurnCalls == 4     \* calls in a run of SpecTurns   \* calls in a run of SpecScore

(***************************************************************************)
(* The representation of the float 1.0.                                    *)
(***************************************************************************)
One == 60000

None == "None"

(***************************************************************************)
(* Lexicon: SmartEmotionalEngine.emotion_patterns and                      *)
(* SmartIntentClassifier.intent_patterns.  Emoji are written by code point.*)
(* An intent's weight is in tenths.                                        *)
(***************************************************************************)
emotion_patterns ==
  ("excited" :> [keywords |-> {"amazing", "awesome", "great", "love", "fantastic", "wonderful",
          "yes", "perfect", "brilliant", "excellent"},
      phrases |-> {"this is great", "i love this", "so excited", "can't wait", "that's awesome"},
      punctuation |-> {"!", "!!!", "!!", "U+1F60A", "U+1F389", "U+1F31F", "U+2728"},
      intensity_words |-> {"so", "very", "extremely", "absolutely", "totally", "really"}])
  @@ ("frustrated" :> [keywords |-> {"stuck", "hard", "difficult", "can't", "impossible", "hate",
          "problem", "issue", "wrong", "broken"},
      phrases |-> {"this is hard", "i can't", "not working", "so frustrated", "this sucks"},
      punctuation |-> {"...", ":(", "U+1F624", "U+1F620", "U+1F4A2"},
      intensity_words |-> {"so", "very", "extremely", "really", "totally", "completely"}])
  @@ ("curious" :> [keywords |-> {"how", "what", "why", "when", "where", "explain", "tell me",
          "show me", "understand", "learn"},
      phrases |-> {"how does", "what is", "can you explain", "i want to know",
          "help me understand"},
      punctuation |-> {"?", "??", "U+1F914", "U+1F4AD"},
      intensity_words |-> {"really", "very", "quite", "exactly"}])
  @@ ("confident" :> [keywords |-> {"will", "can", "definitely", "sure", "absolutely", "certain",
          "know", "believe", "ready"},
      phrases |-> {"i can do", "i will", "i'm sure", "definitely going to", "let's do this"},
      punctuation |-> {"!", "U+1F4AA", "U+1F680", "U+26A1"},
      intensity_words |-> {"absolutely", "definitely", "completely", "totally"}])
  @@ ("uncertain" :> [keywords |-> {"maybe", "perhaps", "not sure", "don't know", "confused",
          "unsure", "might", "possibly", "think"},
      phrases |-> {"not sure", "don't know", "maybe i", "perhaps we", "i think"},
      punctuation |-> {"?", "...", "U+1F937", "U+1F615"},
      intensity_words |-> {"quite", "very", "really", "somewhat", "kinda"}])
  @@ ("creative" :> [keywords |-> {"idea", "create", "make", "build", "design", "imagine",
          "artistic", "innovative", "original"},
      phrases |-> {"i have an idea", "let's create", "want to make", "thinking of", "what if"},
      punctuation |-> {"!", "U+1F4A1", "U+1F3A8", "U+2728", "U+1F31F"},
      intensity_words |-> {"really", "very", "quite", "extremely", "super"}])

intent_patterns ==
  ("game_request" :> [primary_keywords |-> {"game", "play", "level", "character", "adventure",
          "puzzle", "platformer", "rpg", "gaming"},
      secondary_keywords |-> {"player", "gameplay", "mechanics", "story", "quest", "boss", "enemy",
          "weapon"},
      phrases |-> {"create a game", "make a game", "game idea", "game development", "build a game",
          "design a game"},
      context_clues |-> {"unity", "godot", "javascript", "html5", "mobile game", "indie game"},
      weight |-> 10])
  @@ ("media_request" :> [primary_keywords |-> {"image", "video", "picture", "create", "generate",
          "media", "visual", "art", "photo"},
      secondary_keywords |-> {"design", "graphics", "animation", "illustration", "artwork",
          "drawing", "render"},
      phrases |-> {"create an image", "make a video", "generate media", "visual content",
          "design something"},
      context_clues |-> {"photoshop", "blender", "after effects", "premiere", "canvas",
          "digital art"},
      weight |-> 10])
  @@ ("help_request" :> [primary_keywords |-> {"help", "assist", "support", "guide", "explain",
          "how", "tutorial", "teach"},
      secondary_keywords |-> {"instruction", "advice", "guidance", "learn", "understand", "show"},
      phrases |-> {"can you help", "need help", "how do i", "please help", "show me how",
          "explain to me"},
      context_clues |-> {"documentation", "manual", "guide", "tutorial", "example", "step by step"},
      weight |-> 9])
  @@ ("creative_brainstorm" :> [primary_keywords |-> {"idea", "brainstorm", "creative",
          "inspiration", "concept", "innovative", "original"},
      secondary_keywords |-> {"unique", "artistic", "imaginative", "vision", "creativity",
          "design"},
      phrases |-> {"need ideas", "brainstorm with me", "creative help", "inspire me", "what if"},
      context_clues |-> {"creativity", "innovation", "design thinking", "ideation", "artistic"},
      weight |-> 8])
  @@ ("technical_question" :> [primary_keywords |-> {"code", "programming", "technical",
          "implementation", "algorithm", "function"},
      secondary_keywords |-> {"method", "class", "variable", "syntax", "debug", "error"},
      phrases |-> {"how to code", "programming help", "technical issue", "implementation",
          "coding problem"},
      context_clues |-> {"python", "javascript", "api", "database", "framework", "library"},
      weight |-> 9])

\* Iteration order of the two tables (Python dicts iterate in insertion order).
EmotionOrder == <<"excited", "frustrated", "curious", "confident", "uncertain", "creative">>

IntentOrder ==
  <<"game_request", "media_request", "help_request", "creative_brainstorm", "technical_question">>

\* classify_intent's table of boosts, in hundredths: last intent -> (related intent -> boost).
intent_relationships ==
  ("game_request" :> <<[k |-> "technical_question", v |-> 20], [k |-> "creative_brainstorm", v |-> 10]>>)
  @@ ("media_request" :> <<[k |-> "creative_brainstorm", v |-> 20], [k |-> "technical_question", v |-> 10]>>)
  @@ ("help_request" :> <<[k |-> "technical_question", v |-> 30]>>)

(***************************************************************************)
(* Input texts.  sub lists the program's patterns that occur in the        *)
(* lower-cased text; polarity is TextBlob's polarity times One; blank says *)
(* whether text.strip() is empty.                                          *)
(***************************************************************************)
\* ""
EmptyText == [isStr |-> TRUE, name |-> "empty", sub |-> {}, polarity |-> 0, blank |-> TRUE]

\* "Hello! I'm so excited to build a platformer!"
HelloText ==
  [isStr |-> TRUE, name |-> "hello",
   sub |-> {"!", "build", "hello", "platformer", "so", "so excited"},
   polarity |-> 0, blank |-> FALSE]

\* "maybe I don't know what to do"
MaybeText ==
  [isStr |-> TRUE, name |-> "maybe",
   sub |-> {"don't know", "know", "maybe", "maybe i", "what"},
   polarity |-> 0, blank |-> FALSE]

\* message = None: not a string
NoneText == [isStr |-> FALSE, name |-> "None", sub |-> {}, polarity |-> 0, blank |-> FALSE]

Texts == {EmptyText, HelloText, MaybeText, NoneText}

\* Phrases, and for each the program's patterns that occur in it.  A text made of
\* several of them joined by " / " contains the patterns of its phrases and no others.
PhrasePatterns ==
  ("so excited!!!" :> {"!", "!!", "!!!", "so", "so excited"})
  @@ ("this is really hard, i'm stuck..." :> {"...", "hard", "hi", "really", "stuck"})
  @@ ("can you help me?" :> {"?", "can", "can you help", "help"})
  @@ ("i love this, it's amazing and awesome and great" :>
        {"amazing", "awesome", "great", "hi", "i love this", "love", "so"})
  @@ ("make a game with music" :> {"game", "make", "make a game"})

\* the polarities the sentiment library may report for a text, which lie in [-1, 1]
Polarities == {-One, 0, One}

\* the text made of the phrases ws
PhraseText(ws, polarity) ==
  [isStr |-> TRUE, name |-> "phrases", sub |-> UNION {PhrasePatterns[w] : w \in ws},
   polarity |-> polarity, blank |-> ws = {}]

\* "great great great great great great great great"
RepeatText(polarity) ==
  [isStr |-> TRUE, name |-> "repeat", sub |-> {"great"}, polarity |-> polarity, blank |-> FALSE]

\* a text in which the patterns sub occur, of polarity 0
PlainText(name, sub) ==
  [isStr |-> TRUE, name |-> name, sub |-> sub, polarity |-> 0, blank |-> FALSE]

\* "ok"
OkText == PlainText("ok", {})

\* "ok?"
OkAskText == PlainText("ok?", {"?"})

\* "learn"
LearnText == PlainText("learn", {"learn"})

\* "unique"
UniqueText == PlainText("unique", {"unique"})

\* "a unique error"
UniqueErrorText == PlainText("unique error", {"error", "unique"})

\* "a unique error?"
UniqueErrorAskText == PlainText("unique error?", {"?", "error", "unique"})

\* texts whose intent scores lie about the threshold of classify_intent
FaintTexts ==
  {OkText, OkAskText, LearnText, UniqueText, UniqueErrorText, UniqueErrorAskText}

\* the texts given to the scoring functions alone
ScoreTexts ==
  {PhraseText(ws, polarity) : ws \in SUBSET DOMAIN PhrasePatterns, polarity \in Polarities}
    \cup {RepeatText(polarity) : polarity \in Polarities} \cup FaintTexts \cup {NoneText}

UserIds == {"a", "a_b"}

\* session_id arguments; None stands for the omitted argument
SessionIds == {None, "b_default"}

(***************************************************************************)
(* Arithmetic helpers.                                                     *)
(***************************************************************************)
Min(a, b) == IF a <= b THEN a ELSE b

RECURSIVE Gcd(_, _)
Gcd(a, b) == IF b = 0 THEN a ELSE Gcd(b, a % b)

\* the fraction n/d in lowest terms
Frac(n, d) == LET g == Gcd(n, d) IN IF g = 0 THEN [num |-> 0, den |-> 1]
                                    ELSE [num |-> n \div g, den |-> d \div g]

\* the float x (an integer multiple of 1/One) as a fraction
FloatFrac(x) == Frac(x, One)

\* sum(1 for p in patterns if p in text)
Matches(patterns, text) == Cardinality(patterns \cap text.sub)

\* the keys of an insertion-ordered dict, held as a sequence of [k, v] items
Keys(items) == {items[i].k : i \in 1..Len(items)}

Lookup(items, key) == items[CHOOSE i \in 1..Len(items) : items[i].k = key].v

\* max(d.items(), key=lambda x: x[1]): the first item with the greatest value
MaxItem(items) ==
  LET best == CHOOSE i \in 1..Len(items) :
                /\ \A j \in 1..Len(items) : items[j].v <= items[i].v
                /\ \A j \in 1..(i - 1) : items[j].v < items[i].v
  IN items[best]

\* d[key] = f(d[key]) where key is present
SetItem(items, key, val) ==
  [i \in 1..Len(items) |-> IF items[i].k = key THEN [k |-> key, v |-> val] ELSE items[i]]

RECURSIVE SelectSeqBy(_, _)
\* the items of seq whose value is positive, in order
SelectSeqBy(seq, i) ==
  IF i > Len(seq) THEN <<>>
  ELSE IF seq[i].v > 0 THEN <<seq[i]>> \o SelectSeqBy(seq, i + 1)
       ELSE SelectSeqBy(seq, i + 1)

(***************************************************************************)
(* SmartEmotionalEngine.analyze_emotion                                    *)
(***************************************************************************)
\* the score of one emotion before the memory layer (lines 127-147)
EmotionScore(emotion, text) ==
  LET p == emotion_patterns[emotion]
      keyword_matches == Matches(p.keywords, text)
      phrase_matches == Matches(p.phrases, text)
      punct_matches == Matches(p.punctuation, text)
      intensity_matches == Matches(p.intensity_words, text)
  IN ((4 * keyword_matches + 7 * phrase_matches + 3 * punct_matches) * (One \div 10)
        * (10 + 2 * intensity_matches)) \div 10

\* layers 2 and 3: the pattern scores, or the sentiment fallback (lines 125-158)
ComputePatternScores(text) ==
  LET all == [i \in 1..Len(EmotionOrder) |->
                [k |-> EmotionOrder[i], v |-> EmotionScore(EmotionOrder[i], text)]]
      scored == SelectSeqBy(all, 1)
  IN IF scored # <<>> THEN scored
     ELSE IF 10 * text.polarity > 3 * One THEN <<[k |-> "excited", v |-> text.polarity]>>
     ELSE IF 10 * text.polarity < -3 * One THEN <<[k |-> "frustrated", v |-> -text.polarity]>>
     ELSE IF "?" \in text.sub THEN <<[k |-> "curious", v |-> (6 * One) \div 10]>>
     ELSE <<[k |-> "neutral", v |-> One \div 2]>>

\* the same, tabulated over the input texts
PatternScoresTable == [t \in Texts \cup ScoreTexts |-> ComputePatternScores(t)]

PatternScores(text) == PatternScoresTable[text]

\* deque(maxlen=5).append
MemoryCap == 5

DequeAppend(memory, state) ==
  IF Len(memory) >= MemoryCap THEN Append(Tail(memory), state) ELSE Append(memory, state)

\* The state returned when the analysis raises (lines 192-199)
NeutralState_unsure(now) ==
  [primary_emotion |-> "neutral", intensity |-> One \div 2, confidence |-> 0, timestamp |-> now]

NeutralState(now) ==
  [primary_emotion |-> "neutral", intensity |-> One \div 2, confidence |-> One \div 2,
   timestamp |-> now]

\* analyze_emotion(text, user_id): the returned state and the new emotional_memory
analyze_emotion(text, user_id, emotional_memory, now) ==
  IF ~text.isStr
  THEN \* TextBlob(text) raises TypeError, caught at line 192
       [state |-> NeutralState(now), memory |-> emotional_memory]
  ELSE IF user_id \in DOMAIN emotional_memory
  THEN \* line 162 slices a deque, which raises TypeError, caught at line 192: lines
       \* 163-190 do not run for a remembered user
       [state |-> NeutralState(now), memory |-> emotional_memory]
  ELSE
    LET emotion_scores == PatternScores(text)
        best == MaxItem(emotion_scores)
        emotional_state ==
          [primary_emotion |-> best.k,
           intensity |-> Min(best.v \div 3, One),
           confidence |-> Min(best.v \div 2, One),
           timestamp |-> now]
    IN [state |-> emotional_state,
        memory |-> [u \in DOMAIN emotional_memory \cup {user_id} |->
                      IF u = user_id THEN DequeAppend(<<>>, emotional_state)
                      ELSE emotional_memory[u]]]

(***************************************************************************)
(* SmartIntentClassifier.classify_intent                                   *)
(***************************************************************************)
\* the score of one intent from the patterns alone (lines 342-362)
IntentScore(intent, text) ==
  LET p == intent_patterns[intent]
      primary_matches == Matches(p.primary_keywords, text)
      secondary_matches == Matches(p.secondary_keywords, text)
      phrase_matches == Matches(p.phrases, text)
      context_matches == Matches(p.context_clues, text)
  IN ((5 * primary_matches + 3 * secondary_matches + 8 * phrase_matches + 4 * context_matches)
        * (One \div 10) * p.weight) \div 10

RECURSIVE RelationBoost(_, _, _)
\* layer 2: the boosts of the last intent's related intents that already scored (lines 377-380)
RelationBoost(scores, related, i) ==
  IF i > Len(related) THEN scores
  ELSE LET r == related[i]
       IN IF r.k \in Keys(scores)
          THEN RelationBoost(SetItem(scores, r.k, Lookup(scores, r.k) + r.v * (One \div 100)),
                             related, i + 1)
          ELSE RelationBoost(scores, related, i + 1)

\* a variant of layer 3 that seeds help_request whether or not it scored
QuestionBoost_seed(scores, text) ==
  IF "?" \in text.sub
  THEN IF "help_request" \in Keys(scores)
       THEN SetItem(scores, "help_request", (3 * One) \div 10)
       ELSE Append(scores, [k |-> "help_request", v |-> (3 * One) \div 10])
  ELSE scores

\* layer 3: a question mark raises or seeds help_request (lines 383-387)
QuestionBoost(scores, text) ==
  IF "?" \in text.sub
  THEN IF "help_request" \in Keys(scores)
       THEN SetItem(scores, "help_request", Lookup(scores, "help_request") + (2 * One) \div 10)
       ELSE Append(scores, [k |-> "help_request", v |-> (3 * One) \div 10])
  ELSE scores

\* layer 1: the intents that scored, in the order of the table (lines 342-365)
ComputeLayer1(text) ==
  SelectSeqBy([i \in 1..Len(IntentOrder) |->
                 [k |-> IntentOrder[i], v |-> IntentScore(IntentOrder[i], text)]], 1)

\* the same, tabulated over the input texts
Layer1Table == [t \in Texts \cup ScoreTexts |-> ComputeLayer1(t)]

\* a variant of layer 2 that takes the oldest of the recent intents
ContextBoost_oldest(text, context) ==
  LET layer1 == Layer1Table[text]
      recent_intent == context.recent_intents[1]
  IN IF context.recent_intents # <<>> /\ recent_intent \in DOMAIN intent_relationships
     THEN RelationBoost(layer1, intent_relationships[recent_intent], 1)
     ELSE layer1

\* intent_scores after layers 1 and 2 (lines 339-380)
ContextBoost(text, context) ==
  LET layer1 == Layer1Table[text]
      recent_intent == context.recent_intents[Len(context.recent_intents)]
  IN IF context.recent_intents # <<>> /\ recent_intent \in DOMAIN intent_relationships
     THEN RelationBoost(layer1, intent_relationships[recent_intent], 1)
     ELSE layer1

\* intent_scores after the three layers (lines 339-387)
IntentScores(text, context) == QuestionBoost(ContextBoost(text, context), text)

ChatFallback == [intent |-> "chat", confidence |-> (6 * One) \div 10]

\* classify_intent(text, context) for a string text (lines 389-399)
classify_intent_unclamped(text, context) ==
  LET intent_scores == IntentScores(text, context)
      best_intent == MaxItem(intent_scores)
      confidence == best_intent.v
  IN IF intent_scores = <<>> THEN ChatFallback
     ELSE IF 10 * confidence < 3 * One THEN ChatFallback
     ELSE [intent |-> best_intent.k, confidence |-> confidence]

\* a variant without the threshold of lines 394-395
classify_intent_keen(text, context) ==
  LET intent_scores == IntentScores(text, context)
      best_intent == MaxItem(intent_scores)
  IN IF intent_scores = <<>> THEN ChatFallback
     ELSE [intent |-> best_intent.k, confidence |-> Min(best_intent.v, One)]

classify_intent(text, context) ==
  LET intent_scores == IntentScores(text, context)
      best_intent == MaxItem(intent_scores)
      confidence == Min(best_intent.v, One)
  IN IF intent_scores = <<>> THEN ChatFallback
     ELSE IF 10 * confidence < 3 * One THEN ChatFallback
     ELSE [intent |-> best_intent.k, confidence |-> confidence]

(***************************************************************************)
(* SmartResponseEngine                                                     *)
(***************************************************************************)
\* the styles each template category defines, in the order of the table (lines 406-472)
response_templates ==
  ("greeting" :> <<"excited", "professional", "casual">>)
  @@ ("game_request" :> <<"excited", "professional", "frustrated">>)
  @@ ("media_request" :> <<"creative", "professional">>)
  @@ ("emotional_support" :> <<"frustrated", "uncertain">>)

\* _determine_style (lines 502-513)
DetermineStyle(emotional_state, context) ==
  IF context.conversation_length > 5 THEN "professional"
  ELSE IF emotional_state.primary_emotion = "excited" THEN "excited"
  ELSE IF 10 * emotional_state.intensity > 7 * One THEN "excited"
  ELSE "professional"

\* _get_template_response (lines 515-526): the bucket random.choice draws the reply from
GetTemplateResponse(category, style) ==
  LET templates == response_templates[category]
      styles == {templates[i] : i \in 1..Len(templates)}
  IN IF style \in styles
     THEN [category |-> category, style |-> style]
     ELSE [category |-> category, style |-> templates[1]]

Mentions(words, text) == words \cap text.sub # {}

\* _generate_contextual_response (lines 528-552)
GenerateContextualResponse(text, emotional_state) ==
  IF Mentions({"what", "how", "why", "when", "where"}, text)
  THEN [category |-> "question", style |-> None]
  ELSE IF Mentions({"i think", "i believe", "i want", "i need"}, text)
  THEN [category |-> "sharing", style |-> emotional_state.primary_emotion]
  ELSE IF Mentions({"problem", "issue", "trouble", "stuck"}, text)
  THEN [category |-> "problem", style |-> None]
  ELSE [category |-> "default", style |-> emotional_state.primary_emotion]

\* generate_response (lines 474-500)
generate_response(intent, emotional_state, context, text) ==
  LET response_style == DetermineStyle(emotional_state, context)
  IN IF Mentions({"hello", "hi", "hey", "greetings"}, text)
     THEN GetTemplateResponse("greeting", response_style)
     ELSE IF intent \in {"game_request", "media_request"}
     THEN GetTemplateResponse(intent,
            IF emotional_state.primary_emotion \in {"excited", "frustrated"}
            THEN emotional_state.primary_emotion ELSE response_style)
     ELSE IF emotional_state.primary_emotion \in {"frustrated", "uncertain"}
     THEN GetTemplateResponse("emotional_support", emotional_state.primary_emotion)
     ELSE GenerateContextualResponse(text, emotional_state)

\* the reply of generate_response's except branch (lines 498-500)
TechnicalDifficulty == [category |-> "technical_difficulty", style |-> None]

\* a call generate_response(intent, emotional_state, context, user_profile, message) on
\* the heap g, context and user_profile being references: the heap afterwards and the
\* reply; message.lower() raises on a non-string, inside the try (lines 478-500)
GenerateResponseCall_topic(g, intent, emotional_state, context, user_profile, text) ==
  [g |-> [g EXCEPT !.contexts[context].current_topic = intent],
   returned |-> IF ~text.isStr THEN TechnicalDifficulty
                ELSE generate_response(intent, emotional_state, g.contexts[context], text)]

GenerateResponseCall(g, intent, emotional_state, context, user_profile, text) ==
  [g |-> g,
   returned |-> IF ~text.isStr THEN TechnicalDifficulty
                ELSE generate_response(intent, emotional_state, g.contexts[context], text)]

(***************************************************************************)
(* Records                                                                 *)
(***************************************************************************)
\* datetime values and their ISO strings
DateTime(t) == [dt |-> t]

isoformat(d) == [iso |-> d.dt]

fromisoformat(s) == [dt |-> s.iso]

isinstance_str(x) == "iso" \in DOMAIN x

\* UserProfile(user_id=user_id) after __post_init__ (lines 32-48)
NewUserProfile(user_id, now) ==
  [user_id |-> user_id, communication_style |-> "neutral", preferred_topics |-> <<>>,
   emotional_patterns |-> <<>>, conversation_count |-> 0, last_interaction |-> DateTime(now)]

\* ConversationContext(user_id=..., session_id=...) after __post_init__ (lines 50-67)
NewConversationContext(user_id, session_id, now) ==
  [user_id |-> user_id, session_id |-> session_id, current_topic |-> "general",
   conversation_length |-> 0, recent_emotions |-> <<>>, recent_intents |-> <<>>,
   last_interaction |-> DateTime(now)]

\* asdict(profile) with last_interaction as an ISO string (lines 235-238)
ProfileDict(profile) == [profile EXCEPT !.last_interaction = isoformat(profile.last_interaction)]

\* UserProfile(**profile_data) with last_interaction parsed when it is a string (lines 219-223)
ProfileFromData(profile_data) ==
  IF isinstance_str(profile_data.last_interaction)
  THEN [profile_data EXCEPT !.last_interaction = fromisoformat(profile_data.last_interaction)]
  ELSE profile_data

(***************************************************************************)
(* TinyDB table operations                                                 *)
(***************************************************************************)
\* db.search(User.user_id == user_id)
DbSearch(table, user_id) == SelectSeq(table, LAMBDA document : document.user_id = user_id)

\* db.update(fields, User.user_id == user_id): every matching document takes the fields
DbUpdate(table, fields, user_id) ==
  [i \in 1..Len(table) |-> IF table[i].user_id = user_id THEN fields ELSE table[i]]

\* db.insert(document)
DbInsert(table, document) == Append(table, document)

\* session_id or "default"
SessionOrDefault(session_id) == IF session_id = None THEN "default" ELSE session_id

\* f"{user_id}_{session_id}"
ContextKey(user_id, session_id) == user_id \o "_" \o session_id

\* d[key] = value on a dict held as a function
DictSet(d, key, value) == [k \in DOMAIN d \cup {key} |-> IF k = key THEN value ELSE d[k]]

\* the last five entries of a list: xs[-5:]
HistoryCap == 5

LastFive(xs) == IF Len(xs) > HistoryCap THEN SubSeq(xs, Len(xs) - HistoryCap + 1, Len(xs)) ELSE xs

(***************************************************************************)
(* State                                                                   *)
(***************************************************************************)
VARIABLES
  db,                \* the TinyDB table of profile documents (durable)
  profiles,          \* heap of UserProfile objects
  user_profiles,     \* SmartContextManager.user_profiles: user_id -> profile reference
  contexts,          \* heap of ConversationContext objects
  active_contexts,   \* SmartContextManager.active_contexts: context_key -> context reference
  emotional_memory,  \* SmartEmotionalEngine.emotional_memory: user_id -> deque of states
  metrics,           \* SmartLightweightBrain.metrics
  clock,             \* the wall clock read by datetime.now()
  frames,            \* the frame (arguments, locals, program counter) of each call in progress
  history,           \* per context key, the utterances applied to it so far (for the properties)
  memory_user_profiles,  \* MythiqMemorySystem.user_profiles: the profiles in insertion order
  memory_file        \* the content of MythiqMemorySystem's JSON file (durable)

vars == <<db, profiles, user_profiles, contexts, active_contexts, emotional_memory, metrics,
          clock, frames, history, memory_user_profiles, memory_file>>

\* the state of the standalone memory system (memory_system.py); the brain never calls it
memory_vars == <<memory_user_profiles, memory_file>>

\* the memory file before the first save
NoFile == [exists |-> FALSE]

\* MythiqMemorySystem.__init__ with no file on disk: _load_memory finds nothing to load
MemoryInit ==
  /\ memory_user_profiles = <<>>
  /\ memory_file = NoFile

\* the shared state as one record, for the step functions
Globals ==
  [db |-> db, profiles |-> profiles, user_profiles |-> user_profiles, contexts |-> contexts,
   active_contexts |-> active_contexts, emotional_memory |-> emotional_memory,
   metrics |-> metrics, clock |-> clock]

SetGlobals(g) ==
  /\ db' = g.db
  /\ profiles' = g.profiles
  /\ user_profiles' = g.user_profiles
  /\ contexts' = g.contexts
  /\ active_contexts' = g.active_contexts
  /\ emotional_memory' = g.emotional_memory
  /\ metrics' = g.metrics
  /\ clock' = g.clock

\* the null reference: heap references count from 1
NoRef == 0

\* the frame of a call that has not started
IdleFrame == [pc |-> "idle"]

\* the frame of process_message(message, user_id, session_id) at its first statement;
\* dbfail = k > 0 makes the k-th store operation of the call raise
NewFrame(text, user_id, session_id, dbfail) ==
  [pc |-> "pm579", text |-> text, user_id |-> user_id, session_id |-> session_id,
   dbfail |-> dbfail, stack |-> <<>>, ret |-> NoRef,
   profile |-> NoRef, sp_profile |-> NoRef, profile_dict |-> None,
   user_profile |-> NoRef, emotional_state |-> None, context |-> NoRef,
   intent |-> None, confidence |-> 0, uc_context |-> NoRef, uc_profile |-> NoRef,
   tmp |-> 0, result |-> None, raised |-> None]

(***************************************************************************)
(* Control helpers                                                         *)
(***************************************************************************)
\* an exception raised at label `at` reaches process_message's handler (line 636)
Raise(g, l, at) == [g |-> g, l |-> [l EXCEPT !.pc = "except", !.raised = at]]

\* a store operation of this call fails now
StoreFails(l) == l.dbfail = 1

\* one store operation done
StoreOpDone(l) == [l EXCEPT !.dbfail = IF l.dbfail > 1 THEN l.dbfail - 1 ELSE l.dbfail]

\* call a method: its first label, and the label to return to
Call(l, entry, return_to) == [l EXCEPT !.pc = entry, !.stack = <<return_to>> \o l.stack]

\* return value v from a method
Return(l, v) == [l EXCEPT !.pc = Head(l.stack), !.stack = Tail(l.stack), !.ret = v]

(***************************************************************************)
(* SmartContextManager.get_or_create_profile (lines 209-229)               *)
(***************************************************************************)
\* lines 211-212: the cached profile
gcp211(g, l) ==
  IF l.user_id \in DOMAIN g.user_profiles
  THEN [g |-> g, l |-> Return(l, g.user_profiles[l.user_id])]
  ELSE [g |-> g, l |-> [l EXCEPT !.pc = "gcp216"]]

\* lines 215-226: look the user up in the store; load the first document or build a profile
gcp216(g, l) ==
  IF StoreFails(l) THEN Raise(g, l, "gcp216")
  ELSE
    LET user_data == DbSearch(g.db, l.user_id)
        ref == Len(g.profiles) + 1
        l1 == StoreOpDone(l)
    IN IF user_data # <<>>
       THEN [g |-> [g EXCEPT !.profiles = Append(g.profiles, ProfileFromData(user_data[1]))],
             l |-> [l1 EXCEPT !.profile = ref, !.pc = "gcp228"]]
       ELSE [g |-> [g EXCEPT !.profiles =
                      Append(g.profiles, NewUserProfile(l.user_id, g.clock))],
             l |-> Call([l1 EXCEPT !.profile = ref, !.sp_profile = ref], "sp234", "gcp228")]

\* lines 228-229: cache and return the profile
gcp228(g, l) ==
  [g |-> [g EXCEPT !.user_profiles = DictSet(g.user_profiles, l.user_id, l.profile)],
   l |-> Return(l, l.profile)]

(***************************************************************************)
(* SmartContextManager.save_profile (lines 231-243)                        *)
(***************************************************************************)
\* lines 234-238: stamp the profile and take its dictionary
sp234(g, l) ==
  LET stamped == [g.profiles[l.sp_profile] EXCEPT !.last_interaction = DateTime(g.clock)]
  IN [g |-> [g EXCEPT !.profiles[l.sp_profile] = stamped],
      l |-> [l EXCEPT !.profile_dict = ProfileDict(stamped), !.pc = "sp240"]]

\* a variant that inserts whether or not there is a document
sp240_insert(g, l) ==
  IF StoreFails(l) THEN Raise(g, l, "sp240")
  ELSE [g |-> g, l |-> [StoreOpDone(l) EXCEPT !.pc = "sp243"]]

\* line 240: is there a document for the user?
sp240(g, l) ==
  IF StoreFails(l) THEN Raise(g, l, "sp240")
  ELSE [g |-> g,
        l |-> [StoreOpDone(l) EXCEPT
                 !.pc = IF DbSearch(g.db, l.profile_dict.user_id) # <<>> THEN "sp241"
                        ELSE "sp243"]]

\* a variant whose update leaves the stored emotional_patterns as they were
sp241_stale(g, l) ==
  IF StoreFails(l) THEN Raise(g, l, "sp241")
  ELSE [g |-> [g EXCEPT !.db =
                 [i \in 1..Len(g.db) |->
                    IF g.db[i].user_id = l.profile_dict.user_id
                    THEN [l.profile_dict EXCEPT
                            !.emotional_patterns = g.db[i].emotional_patterns]
                    ELSE g.db[i]]],
        l |-> Return(StoreOpDone(l), NoRef)]

\* a variant whose update rewrites every document of the store
sp241_all(g, l) ==
  IF StoreFails(l) THEN Raise(g, l, "sp241")
  ELSE [g |-> [g EXCEPT !.db = [i \in 1..Len(g.db) |-> l.profile_dict]],
        l |-> Return(StoreOpDone(l), NoRef)]

\* line 241: update the user's document(s)
sp241(g, l) ==
  IF StoreFails(l) THEN Raise(g, l, "sp241")
  ELSE [g |-> [g EXCEPT !.db = DbUpdate(g.db, l.profile_dict, l.profile_dict.user_id)],
        l |-> Return(StoreOpDone(l), NoRef)]

\* line 243: insert a new document
sp243(g, l) ==
  IF StoreFails(l) THEN Raise(g, l, "sp243")
  ELSE [g |-> [g EXCEPT !.db = DbInsert(g.db, l.profile_dict)],
        l |-> Return(StoreOpDone(l), NoRef)]

(***************************************************************************)
(* SmartContextManager.update_context (lines 245-291)                      *)
(***************************************************************************)
\* the context key of the call in frame l
FrameKey(l) == ContextKey(l.user_id, SessionOrDefault(l.session_id))

\* lines 248-257: create the context if it is missing, take it, and ask for the profile
uc248(g, l) ==
  LET context_key == FrameKey(l)
      missing == context_key \notin DOMAIN g.active_contexts
      ref == Len(g.contexts) + 1
      g1 == IF missing
            THEN [g EXCEPT !.contexts = Append(g.contexts,
                     NewConversationContext(l.user_id, SessionOrDefault(l.session_id), g.clock)),
                           !.active_contexts = DictSet(g.active_contexts, context_key, ref)]
            ELSE g
  IN [g |-> g1,
      l |-> Call([l EXCEPT !.uc_context = g1.active_contexts[context_key]], "gcp211", "uc257")]

\* line 257: profile = self.get_or_create_profile(user_id)
uc257(g, l) == [g |-> g, l |-> [l EXCEPT !.uc_profile = l.ret, !.pc = "uc260r"]]

\* line 260, the read of context.conversation_length
uc260r(g, l) ==
  [g |-> g, l |-> [l EXCEPT !.tmp = g.contexts[l.uc_context].conversation_length,
                            !.pc = "uc260w"]]

\* a variant that loses the increment of line 260
uc260w_keep(g, l) ==
  [g |-> [g EXCEPT !.contexts[l.uc_context].conversation_length = l.tmp],
   l |-> [l EXCEPT !.pc = "uc261"]]

\* line 260, the write of context.conversation_length
uc260w(g, l) ==
  [g |-> [g EXCEPT !.contexts[l.uc_context].conversation_length = l.tmp + 1],
   l |-> [l EXCEPT !.pc = "uc261"]]

\* a variant that keeps the oldest five entries instead of the newest
TrimRecent_oldest(xs) == IF Len(xs) > HistoryCap THEN SubSeq(xs, 1, HistoryCap) ELSE xs

\* lines 269-272: keep only the recent history
TrimRecent(xs) == IF Len(xs) > HistoryCap THEN LastFive(xs) ELSE xs

\* a variant that trims the emotions and not the intents
uc261_untrimmed(g, l) ==
  LET c == g.contexts[l.uc_context]
  IN [g |-> [g EXCEPT !.contexts[l.uc_context] =
                [c EXCEPT !.last_interaction = DateTime(g.clock),
                          !.current_topic = l.intent,
                          !.recent_emotions =
                             TrimRecent(Append(c.recent_emotions,
                                               l.emotional_state.primary_emotion)),
                          !.recent_intents = Append(c.recent_intents, l.intent)]],
      l |-> [l EXCEPT !.pc = "uc275r"]]

\* lines 261-272: stamp the context, set the topic, record the emotion and the intent
uc261(g, l) ==
  LET c == g.contexts[l.uc_context]
  IN [g |-> [g EXCEPT !.contexts[l.uc_context] =
                [c EXCEPT !.last_interaction = DateTime(g.clock),
                          !.current_topic = l.intent,
                          !.recent_emotions =
                             TrimRecent(Append(c.recent_emotions,
                                               l.emotional_state.primary_emotion)),
                          !.recent_intents = TrimRecent(Append(c.recent_intents, l.intent))]],
      l |-> [l EXCEPT !.pc = "uc275r"]]

\* line 275, the read of profile.conversation_count
uc275r(g, l) ==
  [g |-> g, l |-> [l EXCEPT !.tmp = g.profiles[l.uc_profile].conversation_count,
                            !.pc = "uc275w"]]

\* a variant that counts a conversation only on a context's first turn
uc275w_first(g, l) ==
  [g |-> [g EXCEPT !.profiles[l.uc_profile].conversation_count =
             IF g.contexts[l.uc_context].conversation_length = 1 THEN l.tmp + 1 ELSE l.tmp],
   l |-> [l EXCEPT !.pc = "uc276"]]

\* line 275, the write of profile.conversation_count
uc275w(g, l) ==
  [g |-> [g EXCEPT !.profiles[l.uc_profile].conversation_count = l.tmp + 1],
   l |-> [l EXCEPT !.pc = "uc276"]]

\* old * 0.8 + intensity * 0.2 (lines 282-284): the pattern is held as the intensities it
\* averages, oldest first, and PatternValue is the number they stand for
Ewma(old, intensity) == Append(old, intensity)

RECURSIVE PatternValue_undamped(_)
PatternValue_undamped(samples) ==
  IF Len(samples) = 1 THEN FloatFrac(samples[1])
  ELSE LET old == PatternValue_undamped(SubSeq(samples, 1, Len(samples) - 1))
           inc == FloatFrac(samples[Len(samples)])
       IN Frac(5 * old.num * inc.den + inc.num * old.den, 5 * old.den * inc.den)

RECURSIVE PatternValue(_)
\* the value of a pattern as an exact fraction
PatternValue(samples) ==
  IF Len(samples) = 1 THEN FloatFrac(samples[1])
  ELSE LET old == PatternValue(SubSeq(samples, 1, Len(samples) - 1))
           inc == FloatFrac(samples[Len(samples)])
       IN Frac(4 * old.num * inc.den + inc.num * old.den, 5 * old.den * inc.den)

\* lines 276-286: the preferred topics and the emotional pattern of the emotion
LearnProfile(p, intent, emotional_state) ==
  LET emotion == emotional_state.primary_emotion
  IN [p EXCEPT
        !.preferred_topics =
           IF intent \in {p.preferred_topics[i] : i \in 1..Len(p.preferred_topics)}
           THEN p.preferred_topics ELSE Append(p.preferred_topics, intent),
        !.emotional_patterns =
           IF emotion \in DOMAIN p.emotional_patterns
           THEN DictSet(p.emotional_patterns, emotion,
                        Ewma(p.emotional_patterns[emotion], emotional_state.intensity))
           ELSE DictSet(p.emotional_patterns, emotion, <<emotional_state.intensity>>)]

\* lines 276-289: learn from the utterance, then save the profile
uc276(g, l) ==
  [g |-> [g EXCEPT !.profiles[l.uc_profile] =
             LearnProfile(g.profiles[l.uc_profile], l.intent, l.emotional_state)],
   l |-> Call([l EXCEPT !.sp_profile = l.uc_profile], "sp234", "uc291")]

\* line 291 and line 599: update_context returns the context
uc291(g, l) == [g |-> g, l |-> [l EXCEPT !.context = l.uc_context, !.pc = "pm604"]]

(***************************************************************************)
(* SmartLightweightBrain.process_message (lines 575-645)                   *)
(***************************************************************************)
\* lines 579-582: count the call and ask for the user's profile
pm579(g, l) ==
  [g |-> [g EXCEPT !.metrics.total_conversations = @ + 1],
   l |-> Call(l, "gcp211", "pm582")]

\* line 582: user_profile = self.context_manager.get_or_create_profile(user_id)
pm582(g, l) == [g |-> g, l |-> [l EXCEPT !.user_profile = l.ret, !.pc = "pm585"]]

\* line 585: emotional_state = self.emotional_engine.analyze_emotion(message, user_id)
pm585(g, l) ==
  LET r == analyze_emotion(l.text, l.user_id, g.emotional_memory, g.clock)
  IN [g |-> [g EXCEPT !.emotional_memory = r.memory],
      l |-> [l EXCEPT !.emotional_state = r.state, !.pc = "pm588"]]

\* lines 588-589: is there a context under the key?
pm588(g, l) ==
  [g |-> g,
   l |-> [l EXCEPT !.pc = IF FrameKey(l) \notin DOMAIN g.active_contexts THEN "pm590"
                          ELSE "pm595"]]

\* lines 590-593: create the context and store it under the key
pm590(g, l) ==
  [g |-> [g EXCEPT !.contexts = Append(g.contexts,
             NewConversationContext(l.user_id, SessionOrDefault(l.session_id), g.clock)),
                   !.active_contexts =
                      DictSet(g.active_contexts, FrameKey(l), Len(g.contexts) + 1)],
   l |-> [l EXCEPT !.pc = "pm595"]]

\* line 595: context = self.context_manager.active_contexts[context_key]
pm595(g, l) ==
  [g |-> g, l |-> [l EXCEPT !.context = g.active_contexts[FrameKey(l)], !.pc = "pm596"]]

\* line 596: classify the intent; text.lower() raises AttributeError on a non-string
pm596(g, l) ==
  IF ~l.text.isStr THEN Raise(g, l, "pm596")
  ELSE LET r == classify_intent(l.text, g.contexts[l.context])
       IN [g |-> g,
           l |-> [l EXCEPT !.intent = r.intent, !.confidence = r.confidence, !.pc = "uc248"]]

\* the dictionary process_message returns (lines 614-634)
ResultDict(g, l, content) ==
  [content |-> content,
   intent |-> l.intent,
   confidence |-> l.confidence,
   emotion |-> [primary |-> l.emotional_state.primary_emotion,
                intensity |-> l.emotional_state.intensity,
                confidence |-> l.emotional_state.confidence],
   context |-> [conversation_length |-> g.contexts[l.context].conversation_length,
                current_topic |-> g.contexts[l.context].current_topic,
                user_conversations |-> g.profiles[l.user_profile].conversation_count],
   metadata |-> [timestamp |-> isoformat(DateTime(g.clock)),
                 session_id |-> SessionOrDefault(l.session_id),
                 brain_type |-> "smart_lightweight"]]

\* lines 604-634: compose the response, count the success, return the result
pm604(g, l) ==
  LET r == GenerateResponseCall(g, l.intent, l.emotional_state, l.context, l.user_profile,
                                l.text)
  IN [g |-> [r.g EXCEPT !.metrics.successful_responses = @ + 1],
      l |-> [l EXCEPT !.result = ResultDict(r.g, l, r.returned), !.pc = "done"]]

\* the dictionary the handler returns (lines 638-645)
ErrorResult(now) ==
  [content |-> [category |-> "technical_moment", style |-> None],
   intent |-> "error",
   confidence |-> One \div 2,
   emotion |-> [primary |-> "neutral", intensity |-> One \div 2, confidence |-> One \div 2],
   context |-> [conversation_length |-> 0, current_topic |-> "error"],
   metadata |-> [timestamp |-> isoformat(DateTime(now)), brain_type |-> "error_fallback"]]

\* a variant whose handler answers with the emotion the analysis found
pmExcept_analysed(g, l) ==
  [g |-> g,
   l |-> [l EXCEPT !.result =
            [ErrorResult(g.clock) EXCEPT
               !.emotion = IF l.user_profile = NoRef THEN @
                           ELSE [primary |-> l.emotional_state.primary_emotion,
                                 intensity |-> l.emotional_state.intensity,
                                 confidence |-> l.emotional_state.confidence]],
          !.pc = "done"]]

\* lines 636-645: except Exception: return the fallback
pmExcept(g, l) == [g |-> g, l |-> [l EXCEPT !.result = ErrorResult(g.clock), !.pc = "done"]]

(***************************************************************************)
(* One step of a call: the code at its program counter.                    *)
(***************************************************************************)
Step(g, l) ==
  CASE l.pc = "pm579" -> pm579(g, l)
    [] l.pc = "pm582" -> pm582(g, l)
    [] l.pc = "pm585" -> pm585(g, l)
    [] l.pc = "pm588" -> pm588(g, l)
    [] l.pc = "pm590" -> pm590(g, l)
    [] l.pc = "pm595" -> pm595(g, l)
    [] l.pc = "pm596" -> pm596(g, l)
    [] l.pc = "pm604" -> pm604(g, l)
    [] l.pc = "except" -> pmExcept(g, l)
    [] l.pc = "gcp211" -> gcp211(g, l)
    [] l.pc = "gcp216" -> gcp216(g, l)
    [] l.pc = "gcp228" -> gcp228(g, l)
    [] l.pc = "sp234" -> sp234(g, l)
    [] l.pc = "sp240" -> sp240(g, l)
    [] l.pc = "sp241" -> sp241(g, l)
    [] l.pc = "sp243" -> sp243(g, l)
    [] l.pc = "uc248" -> uc248(g, l)
    [] l.pc = "uc257" -> uc257(g, l)
    [] l.pc = "uc260r" -> uc260r(g, l)
    [] l.pc = "uc260w" -> uc260w(g, l)
    [] l.pc = "uc261" -> uc261(g, l)
    [] l.pc = "uc275r" -> uc275r(g, l)
    [] l.pc = "uc275w" -> uc275w(g, l)
    [] l.pc = "uc276" -> uc276(g, l)
    [] l.pc = "uc291" -> uc291(g, l)

\* the locals of a returned call are dead: only its arguments and what it returned remain
Finished(l) ==
  [l EXCEPT !.dbfail = 0, !.stack = <<>>, !.ret = NoRef, !.tmp = 0, !.profile = NoRef,
            !.sp_profile = NoRef, !.profile_dict = None]

RECURSIVE Run(_)
\* a call run to its return
Run(s) == IF s.l.pc = "done" THEN [g |-> s.g, l |-> Finished(s.l)] ELSE Run(Step(s.g, s.l))

\* the clock advances between calls
Tick(g) == [g EXCEPT !.clock = @ + 1]

\* the call in frame l applied its utterance to the context (update_context reached line 260)
Applied(l) == l.pc = "done" /\ l.uc_profile # NoRef

\* the utterance of a finished call, appended to the history of its key when it was applied
Record(h, l) ==
  IF Applied(l)
  THEN DictSet(h, FrameKey(l),
               Append(IF FrameKey(l) \in DOMAIN h THEN h[FrameKey(l)] ELSE <<>>,
                      [user_id |-> l.user_id,
                       emotion |-> l.emotional_state.primary_emotion,
                       intent |-> l.intent]))
  ELSE h

\* store operations a call can make: the lookup, then a search and a write in each of two saves
StoreOps == 5

Faults == 0..StoreOps

(***************************************************************************)
(* Sequential operation: one call at a time, each run to its return.       *)
(***************************************************************************)
Init ==
  /\ db = <<>>
  /\ profiles = <<>>
  /\ user_profiles = <<>>
  /\ contexts = <<>>
  /\ active_contexts = <<>>
  /\ emotional_memory = <<>>
  /\ metrics = [total_conversations |-> 0, successful_responses |-> 0]
  /\ clock = 0
  /\ frames = <<IdleFrame>>
  /\ history = <<>>
  /\ MemoryInit

\* brain.process_message(message, user_id, session_id) run to its return
RunCall(text, user_id, session_id, dbfail) ==
  LET s == Run([g |-> Tick(Globals), l |-> NewFrame(text, user_id, session_id, dbfail)])
  IN /\ SetGlobals(s.g)
     /\ frames' = <<s.l>>
     /\ history' = Record(history, s.l)
     /\ UNCHANGED memory_vars

\* a direct call of process_message
ProcessMessage(text, user_id, session_id, dbfail) ==
  /\ clock < MaxCalls
  /\ RunCall(text, user_id, session_id, dbfail)

\* the responses of the /api/chat handler that do not come from the brain (app.py)
MessageRequired == [pc |-> "http", status |-> 400, error |-> "Message is required"]

MessageEmpty == [pc |-> "http", status |-> 400, error |-> "Message cannot be empty"]

ChatError == [pc |-> "http", status |-> 500, intent |-> "error"]

\* a request body without the 'message' key
NoMessage == [isStr |-> FALSE, name |-> "missing", sub |-> {}, polarity |-> 0, blank |-> FALSE]

\* POST /api/chat (app.py lines 140-190): validate the body, then call the brain
Chat(message, user_id, session_id) ==
  /\ clock < MaxCalls
  /\ IF message = NoMessage
     THEN /\ frames' = <<MessageRequired>>
          /\ UNCHANGED <<db, profiles, user_profiles, contexts, active_contexts,
                         emotional_memory, metrics, clock, history, memory_vars>>
     ELSE IF ~message.isStr
     THEN \* message.strip() raises AttributeError, caught at line 180
          /\ frames' = <<ChatError>>
          /\ UNCHANGED <<db, profiles, user_profiles, contexts, active_contexts,
                         emotional_memory, metrics, clock, history, memory_vars>>
     ELSE IF message.blank
     THEN /\ frames' = <<MessageEmpty>>
          /\ UNCHANGED <<db, profiles, user_profiles, contexts, active_contexts,
                         emotional_memory, metrics, clock, history, memory_vars>>
     ELSE RunCall(message, user_id, session_id, 0)

\* the request bodies of the handler: a message of any kind, or none
Bodies == Texts \cup {NoMessage}

Next ==
  \/ \E text \in Texts, user_id \in UserIds, session_id \in SessionIds, dbfail \in Faults :
       ProcessMessage(text, user_id, session_id, dbfail)
  \/ \E message \in Bodies, user_id \in UserIds, session_id \in SessionIds :
       Chat(message, user_id, session_id)

Spec == Init /\ [][Next]_vars

(***************************************************************************)
(* Long conversations: one user, two sessions, no store failure.           *)
(***************************************************************************)
LongTexts == {HelloText, MaybeText}

LongCall(text, session_id) ==
  /\ clock < MaxLongCalls
  /\ RunCall(text, "a", session_id, 0)

NextLong == \E text \in LongTexts, session_id \in SessionIds : LongCall(text, session_id)

SpecLong == Init /\ [][NextLong]_vars

(***************************************************************************)
(* Restarts: the process stops and a new one opens the same store.         *)
(***************************************************************************)
\* SmartLightweightBrain.__init__ and SmartContextManager.__init__ on the existing file
Restart ==
  /\ frames # <<IdleFrame>>
  /\ profiles' = <<>>
  /\ user_profiles' = <<>>
  /\ contexts' = <<>>
  /\ active_contexts' = <<>>
  /\ emotional_memory' = <<>>
  /\ metrics' = [total_conversations |-> 0, successful_responses |-> 0]
  /\ frames' = <<IdleFrame>>
  /\ history' = <<>>
  /\ UNCHANGED <<db, clock, memory_vars>>

NextRestart == Next \/ Restart

SpecRestart == Init /\ [][NextRestart]_vars

(***************************************************************************)
(* Concurrent operation: the calls are threads of the server, their steps  *)
(* interleave.                                                             *)
(***************************************************************************)
Threads == 1..MaxConcCalls

\* the message of each thread
ConcText == <<HelloText, MaybeText, HelloText>>

ConcFaults == {0, 2, 5}

InitConc ==
  /\ db = <<>>
  /\ profiles = <<>>
  /\ user_profiles = <<>>
  /\ contexts = <<>>
  /\ active_contexts = <<>>
  /\ emotional_memory = <<>>
  /\ metrics = [total_conversations |-> 0, successful_responses |-> 0]
  /\ clock = 0
  /\ frames = [t \in Threads |-> IdleFrame]
  /\ history = <<>>
  /\ MemoryInit

\* a request arrives: thread t enters process_message
StartCall(t, text, user_id, dbfail) ==
  /\ frames[t].pc = "idle"
  /\ frames' = [frames EXCEPT ![t] = NewFrame(text, user_id, None, dbfail)]
  /\ UNCHANGED <<db, profiles, user_profiles, contexts, active_contexts, emotional_memory,
                 metrics, clock, history, memory_vars>>

\* thread t executes the code at its program counter
ThreadStep(t) ==
  /\ frames[t].pc \notin {"idle", "done"}
  /\ LET s == Step(Globals, frames[t])
         l == IF s.l.pc = "done" THEN Finished(s.l) ELSE s.l
     IN /\ SetGlobals(s.g)
        /\ frames' = [frames EXCEPT ![t] = l]
        /\ history' = Record(history, l)
        /\ UNCHANGED memory_vars

NextConc ==
  \E t \in Threads :
    \/ \E dbfail \in ConcFaults : StartCall(t, ConcText[t], "a", dbfail)
    \/ ThreadStep(t)

SpecConc == InitConc /\ [][NextConc]_vars

(***************************************************************************)
(* Many users: a brain that has served ManyStart users, one first message  *)
(* each, then serves more users it has not seen.  In sequential operation  *)
(* the objects a first call creates do not depend on the other users, so   *)
(* the starting state is assembled from each user's first call on a fresh  *)
(* brain.                                                                  *)
(***************************************************************************)
\* the user_id of the n-th user
ManyUser(n) == "u" \o ToString(n)

\* the shared state of a fresh brain at time now
FreshGlobals(now) ==
  [db |-> <<>>, profiles |-> <<>>, user_profiles |-> <<>>, contexts |-> <<>>,
   active_contexts |-> <<>>, emotional_memory |-> <<>>,
   metrics |-> [total_conversations |-> 0, successful_responses |-> 0], clock |-> now]

\* the n-th user's first message, at time n, run to its return on a fresh brain
FirstCall(n) ==
  Run([g |-> FreshGlobals(n), l |-> NewFrame(HelloText, ManyUser(n), None, 0)])

\* the n-th user among the first m
ManyIndex(u, m) == CHOOSE n \in 1..m : ManyUser(n) = u

\* the state after the first m users' first messages
InitMany ==
  LET first == [n \in 1..ManyStart |-> FirstCall(n)]
      users == {ManyUser(n) : n \in 1..ManyStart}
      keys == {ContextKey(ManyUser(n), "default") : n \in 1..ManyStart}
      key_index == [k \in keys |->
                      CHOOSE n \in 1..ManyStart : ContextKey(ManyUser(n), "default") = k]
  IN /\ db = [n \in 1..ManyStart |-> first[n].g.db[1]]
     /\ profiles = [n \in 1..ManyStart |-> first[n].g.profiles[1]]
     /\ user_profiles = [u \in users |-> ManyIndex(u, ManyStart)]
     /\ contexts = [n \in 1..ManyStart |-> first[n].g.contexts[1]]
     /\ active_contexts = key_index
     /\ emotional_memory =
          [u \in users |-> first[ManyIndex(u, ManyStart)].g.emotional_memory[u]]
     /\ metrics = [total_conversations |-> ManyStart, successful_responses |-> ManyStart]
     /\ clock = ManyStart
     /\ frames = <<[first[ManyStart].l EXCEPT !.user_profile = ManyStart,
                                              !.context = ManyStart,
                                              !.uc_profile = ManyStart,
                                              !.uc_context = ManyStart]>>
     /\ history = [k \in keys |-> Record(<<>>, first[key_index[k]].l)[k]]
     /\ MemoryInit

\* the first message of the next new user
ManyCall(n) ==
  /\ n = clock + 1
  /\ RunCall(HelloText, ManyUser(n), None, 0)

NextMany == \E n \in (ManyStart + 1)..MaxManyUsers : ManyCall(n)

SpecMany == InitMany /\ [][NextMany]_vars

(***************************************************************************)
(* MythiqMemorySystem (memory_system.py): a standalone store of per-user   *)
(* profiles with conversation history and learned preferences.  Its        *)
(* user_profiles dict is held as the sequence of its values in insertion   *)
(* order; a timestamp is an ISO string, None is NoneValue.                 *)
(***************************************************************************)
max_conversation_history == 100

max_total_users == 1000

\* the users kept by a cleanup: sorted_users[-800:]
KeptUsers == 800

\* the favourite topics kept: favorite_topics[-10:]
TopicCap == 10

\* the confidence of a newly learned preference, and the step that strengthens it
NewConfidence == (6 * One) \div 10

ConfidenceStep == One \div 10

\* Python's None where a string is expected
NoneValue == [none |-> TRUE]

\* the truth value of an Optional[str] holding None or a timestamp
Truthy(s) == "iso" \in DOMAIN s

\* the string "1970-01-01", which sorts before every timestamp the clock produces
Epoch == [iso |-> 0]

\* self.preference_patterns, in iteration order
preference_patterns ==
  <<[name |-> "game_genres", category |-> "gaming_preferences",
     keywords |-> <<"platformer", "puzzle", "adventure", "action", "strategy", "rpg">>],
    [name |-> "art_styles", category |-> "visual_preferences",
     keywords |-> <<"realistic", "cartoon", "abstract", "minimalist", "colorful", "dark">>],
    [name |-> "interaction_style", category |-> "communication_preferences",
     keywords |-> <<"detailed", "quick", "casual", "professional", "creative", "technical">>],
    [name |-> "project_types", category |-> "project_preferences",
     keywords |-> <<"solo", "collaborative", "learning", "professional", "hobby",
                    "experimental">>]>>

\* "a quick professional platformer"
ProText ==
  [isStr |-> TRUE, name |-> "pro", sub |-> {"platformer", "professional", "quick"},
   polarity |-> 0, blank |-> FALSE]

\* UserProfile(user_id=user_id, first_interaction=now) after __post_init__
NewMemoryProfile(user_id, now) ==
  [user_id |-> user_id, name |-> None, preferences |-> <<>>, conversation_history |-> <<>>,
   favorite_topics |-> <<>>, interaction_count |-> 0,
   first_interaction |-> isoformat(DateTime(now)), last_interaction |-> NoneValue,
   personality_insights |-> <<>>]

\* the position of user_id in the dict, 0 when it is not a key
UserIndex(ps, user_id) ==
  IF \E i \in 1..Len(ps) : ps[i].user_id = user_id
  THEN CHOOSE i \in 1..Len(ps) : ps[i].user_id = user_id
  ELSE 0

\* the sort key of _cleanup_old_users (line 350)
SortKey(p) ==
  IF Truthy(p.last_interaction) THEN p.last_interaction.iso
  ELSE IF Truthy(p.first_interaction) THEN p.first_interaction.iso
  ELSE Epoch.iso

\* sorted(items, key=...): ascending and stable
Sorted(ps) == SortSeq(ps, LAMBDA p, q : SortKey(p) < SortKey(q))

\* xs[-k:]
LastOf(xs, k) == IF Len(xs) > k THEN SubSeq(xs, Len(xs) - k + 1, Len(xs)) ELSE xs

\* _cleanup_old_users (lines 344-360): keep the 800 users with the greatest keys
cleanup_old_users_oldest(ps) == SubSeq(Sorted(ps), 1, Min(Len(ps), KeptUsers))

cleanup_old_users(ps) == LastOf(Sorted(ps), KeptUsers)

\* a variant that cleans up only above max_total_users
get_or_create_user_profile_over(ps, user_id, now) ==
  IF UserIndex(ps, user_id) # 0 THEN ps
  ELSE LET room == IF Len(ps) > max_total_users THEN cleanup_old_users(ps) ELSE ps
       IN Append(room, NewMemoryProfile(user_id, now))

\* get_or_create_user_profile (lines 137-149): the dict afterwards
get_or_create_user_profile(ps, user_id, now) ==
  IF UserIndex(ps, user_id) # 0 THEN ps
  ELSE LET room == IF Len(ps) >= max_total_users THEN cleanup_old_users(ps) ELSE ps
       IN Append(room, NewMemoryProfile(user_id, now))

\* the index of the preference (category, keyword) in a profile's list, 0 when absent
PreferenceIndex(prefs, category, keyword) ==
  IF \E i \in 1..Len(prefs) : prefs[i].category = category /\ prefs[i].preference = keyword
  THEN CHOOSE i \in 1..Len(prefs) :
         /\ prefs[i].category = category /\ prefs[i].preference = keyword
         /\ \A j \in 1..(i - 1) :
              ~(prefs[j].category = category /\ prefs[j].preference = keyword)
  ELSE 0

\* the body of the keyword loop of _learn_preferences (lines 196-217)
LearnKeyword_decay(prefs, category, keyword, text, intent, now) ==
  IF keyword \notin text.sub THEN prefs
  ELSE LET i == PreferenceIndex(prefs, category, keyword)
       IN IF i # 0
          THEN [prefs EXCEPT ![i].confidence = NewConfidence]
          ELSE Append(prefs, [category |-> category, preference |-> keyword,
                              confidence |-> NewConfidence, learned_from |-> intent,
                              timestamp |-> isoformat(DateTime(now))])

LearnKeyword(prefs, category, keyword, text, intent, now) ==
  IF keyword \notin text.sub THEN prefs
  ELSE LET i == PreferenceIndex(prefs, category, keyword)
       IN IF i # 0
          THEN [prefs EXCEPT ![i].confidence = Min(One, @ + ConfidenceStep)]
          ELSE Append(prefs, [category |-> category, preference |-> keyword,
                              confidence |-> NewConfidence, learned_from |-> intent,
                              timestamp |-> isoformat(DateTime(now))])

RECURSIVE LearnKeywords(_, _, _, _, _, _)
\* the keywords of one pattern from position k on
LearnKeywords(prefs, pattern, k, text, intent, now) ==
  IF k > Len(pattern.keywords) THEN prefs
  ELSE LearnKeywords(LearnKeyword(prefs, pattern.category, pattern.keywords[k], text,
                                  intent, now),
                     pattern, k + 1, text, intent, now)

RECURSIVE LearnPatterns(_, _, _, _, _)
\* the patterns from position n on
LearnPatterns(prefs, n, text, intent, now) ==
  IF n > Len(preference_patterns) THEN prefs
  ELSE LearnPatterns(LearnKeywords(prefs, preference_patterns[n], 1, text, intent, now),
                     n + 1, text, intent, now)

\* _learn_preferences (lines 189-217): the profile's preferences afterwards
learn_preferences(prefs, text, intent, now) == LearnPatterns(prefs, 1, text, intent, now)

RECURSIVE update_favorite_topics(_, _)
\* _update_favorite_topics (lines 219-228)
update_favorite_topics(favorite_topics, topics) ==
  IF topics = <<>> THEN favorite_topics
  ELSE LET topic == Head(topics)
           added == IF \E i \in 1..Len(favorite_topics) : favorite_topics[i] = topic
                    THEN favorite_topics
                    ELSE Append(favorite_topics, topic)
       IN update_favorite_topics(LastOf(added, TopicCap), Tail(topics))

\* a variant that counts a key once and never again
CountUp_once(items, key) ==
  IF key \in Keys(items) THEN items ELSE Append(items, [k |-> key, v |-> 1])

\* d[key] += 1, or d[key] = 1 for a new key
CountUp(items, key) ==
  IF key \in Keys(items) THEN SetItem(items, key, Lookup(items, key) + 1)
  ELSE Append(items, [k |-> key, v |-> 1])

\* d.get(key, 0)
GetOrZero(items, key) == IF key \in Keys(items) THEN Lookup(items, key) ELSE 0

\* _derive_personality_traits (lines 257-287); c / total > x/10 is 10 c > x total
derive_personality_traits(emotions, intents, total_interactions) ==
  LET trait(items, key, tenths, name) ==
        IF 10 * GetOrZero(items, key) > tenths * total_interactions THEN <<name>> ELSE <<>>
  IN trait(emotions, "excited", 3, "enthusiastic")
     \o trait(emotions, "curious", 2, "inquisitive")
     \o trait(emotions, "creative", 2, "creative")
     \o trait(intents, "game_request", 3, "game_oriented")
     \o trait(intents, "media_request", 3, "visually_creative")
     \o trait(intents, "help_request", 4, "collaborative")

\* _update_personality_insights (lines 230-255): the insights dict afterwards
update_personality_insights(insights, emotion, intent, interaction_count) ==
  LET emotions == CountUp(IF "emotions" \in DOMAIN insights THEN insights["emotions"]
                          ELSE <<>>, emotion)
      intents == CountUp(IF "intents" \in DOMAIN insights THEN insights["intents"]
                         ELSE <<>>, intent)
      counted == DictSet(DictSet(insights, "emotions", emotions), "intents", intents)
  IN IF interaction_count >= 5
     THEN DictSet(counted, "traits",
                  derive_personality_traits(emotions, intents, interaction_count))
     ELSE counted

\* the history after the append and the trim of lines 166-171
TrimHistory_keep(conversation_history, memory) == Append(conversation_history, memory)

TrimHistory(conversation_history, memory) ==
  LET appended == Append(conversation_history, memory)
  IN IF Len(appended) > max_conversation_history
     THEN LastOf(appended, max_conversation_history)
     ELSE appended

\* the profile after lines 155-184 of remember_conversation
Remembered(profile, text, response, intent, emotion, topics, now) ==
  LET memory == [message |-> text, response |-> response, intent |-> intent,
                 emotion |-> emotion, timestamp |-> isoformat(DateTime(now)),
                 topics |-> topics, user_satisfaction |-> None]
      interaction_count == profile.interaction_count + 1
  IN [profile EXCEPT
        !.conversation_history = TrimHistory(@, memory),
        !.interaction_count = interaction_count,
        !.last_interaction = memory.timestamp,
        !.preferences = learn_preferences(@, text, intent, now),
        !.favorite_topics = update_favorite_topics(@, topics),
        !.personality_insights =
           update_personality_insights(@, emotion, intent, interaction_count)]

\* _save_memory (lines 117-135): the file written from the profiles
SavedFile(ps, now) ==
  [exists |-> TRUE, user_profiles |-> ps, last_updated |-> isoformat(DateTime(now)),
   version |-> "1.0"]

\* remember_conversation (lines 151-187): the dict afterwards
remember_conversation(ps, user_id, text, response, intent, emotion, topics, now) ==
  LET tracked == get_or_create_user_profile(ps, user_id, now)
      i == UserIndex(tracked, user_id)
  IN [tracked EXCEPT ![i] = Remembered(@, text, response, intent, emotion, topics, now)]

(***************************************************************************)
(* The memory system's operations as actions.                              *)
(***************************************************************************)
\* the brain's state, which the memory system never touches
brain_vars == <<db, profiles, user_profiles, contexts, active_contexts, emotional_memory,
                metrics, frames>>

\* the remember_conversation calls made for a user since the user's profile was created,
\* kept in the history under the user_id: a call that creates the profile starts anew
CallsSince(h, ps, user_id) ==
  IF UserIndex(ps, user_id) # 0 /\ user_id \in DOMAIN h THEN h[user_id] ELSE <<>>

\* memory.get_or_create_user_profile(user_id)
GetOrCreateUserProfile(user_id) ==
  /\ clock' = clock + 1
  /\ memory_user_profiles' =
       get_or_create_user_profile(memory_user_profiles, user_id, clock + 1)
  /\ history' = DictSet(history, user_id, CallsSince(history, memory_user_profiles, user_id))
  /\ UNCHANGED <<memory_file, brain_vars>>

\* memory.remember_conversation(user_id, message, response, intent, emotion, topics)
RememberConversation(user_id, text, response, intent, emotion, topics) ==
  /\ clock' = clock + 1
  /\ memory_user_profiles' =
       remember_conversation(memory_user_profiles, user_id, text, response, intent,
                             emotion, topics, clock + 1)
  /\ memory_file' = SavedFile(memory_user_profiles', clock + 1)
  /\ history' = DictSet(history, user_id,
                        Append(CallsSince(history, memory_user_profiles, user_id),
                               [user_id |-> user_id, emotion |-> emotion, intent |-> intent]))
  /\ UNCHANGED brain_vars

\* what the caller passes with a message: intent, emotion and topics
Interactions ==
  {[intent |-> "game_request", emotion |-> "excited", topics |-> <<"games", "platformers">>],
   [intent |-> "chat", emotion |-> "neutral", topics |-> <<>>]}

MemoryTexts == {HelloText, MaybeText, ProText}

MemoryUsers == {"a", "b"}

(***************************************************************************)
(* One long-standing user: user "a" converses until the history is full,   *)
(* then any user converses.                                                *)
(***************************************************************************)
\* the message of user "a"'s n-th conversation while the history fills
FillText(n) == IF n % 3 = 1 THEN HelloText ELSE IF n % 3 = 2 THEN MaybeText ELSE ProText

FillInteraction(n) ==
  IF n % 2 = 1
  THEN [intent |-> "game_request", emotion |-> "excited", topics |-> <<"games", "platformers">>]
  ELSE [intent |-> "chat", emotion |-> "neutral", topics |-> <<>>]

Fill ==
  /\ clock < max_conversation_history
  /\ LET x == FillInteraction(clock + 1)
     IN RememberConversation("a", FillText(clock + 1), "ok", x.intent, x.emotion, x.topics)

Converse(user_id, text, x) ==
  /\ clock >= max_conversation_history
  /\ clock < max_conversation_history + MaxMemoryCalls
  /\ RememberConversation(user_id, text, "ok", x.intent, x.emotion, x.topics)

Create(user_id) ==
  /\ clock >= max_conversation_history
  /\ clock < max_conversation_history + MaxMemoryCalls
  /\ GetOrCreateUserProfile(user_id)

NextMemory ==
  \/ Fill
  \/ \E user_id \in MemoryUsers, text \in MemoryTexts, x \in Interactions :
       Converse(user_id, text, x)
  \/ \E user_id \in MemoryUsers : Create(user_id)

SpecMemory == Init /\ [][NextMemory]_vars

(***************************************************************************)
(* A full store: max_total_users users are tracked when the run starts.    *)
(* User n was created at time n, by a conversation or, for the silent      *)
(* users, by get_or_create_user_profile alone; the users of `again` then   *)
(* conversed once more, user n at time max_total_users + n.                *)
(***************************************************************************)
Range(from, to) == {n \in 1..max_total_users : from <= n /\ n <= to}

EvictShapes ==
  {[silent |-> {}, again |-> {}],
   [silent |-> {}, again |-> Range(1, 1)],
   [silent |-> {}, again |-> Range(1, 199)],
   [silent |-> {}, again |-> Range(1, 201)],
   [silent |-> {}, again |-> Range(100, 600)],
   [silent |-> Range(1, 50), again |-> {}],
   [silent |-> Range(max_total_users - 100, max_total_users), again |-> Range(1, 500)],
   [silent |-> Range(150, 250), again |-> Range(200, 220)]}

FirstInteraction ==
  [intent |-> "game_request", emotion |-> "excited", topics |-> <<"games", "platformers">>]

\* user n's profile after its creation at time n
Created(shape, n) ==
  IF n \in shape.silent THEN NewMemoryProfile(ManyUser(n), n)
  ELSE Remembered(NewMemoryProfile(ManyUser(n), n), HelloText, "ok", FirstInteraction.intent,
                  FirstInteraction.emotion, FirstInteraction.topics, n)

\* user n's profile when the run starts
Settled(shape, n) ==
  IF n \in shape.again
  THEN Remembered(Created(shape, n), ProText, "ok", "chat", "neutral", <<>>,
                  max_total_users + n)
  ELSE Created(shape, n)

Greatest(S) == CHOOSE n \in S : \A m \in S : m <= n

\* the file when the run starts: what the last conversation saved
SettledFile(shape) ==
  LET spoke == (1..max_total_users) \ shape.silent
  IN IF shape.again # {}
     THEN SavedFile([n \in 1..max_total_users |-> Settled(shape, n)],
                    max_total_users + Greatest(shape.again))
     ELSE IF spoke # {}
     THEN SavedFile([n \in 1..Greatest(spoke) |-> Created(shape, n)], Greatest(spoke))
     ELSE NoFile

InitEvict ==
  /\ db = <<>>
  /\ profiles = <<>>
  /\ user_profiles = <<>>
  /\ contexts = <<>>
  /\ active_contexts = <<>>
  /\ emotional_memory = <<>>
  /\ metrics = [total_conversations |-> 0, successful_responses |-> 0]
  /\ frames = <<IdleFrame>>
  /\ history = <<>>
  /\ clock = 2 * max_total_users
  /\ \E shape \in EvictShapes :
       /\ memory_user_profiles = [n \in 1..max_total_users |-> Settled(shape, n)]
       /\ memory_file = SettledFile(shape)

\* the users of a run: a tracked one and two new ones
EvictUsers == {ManyUser(1), ManyUser(max_total_users + 1), ManyUser(max_total_users + 2)}

EvictCreate(user_id) ==
  /\ clock < 2 * max_total_users + MaxEvictCalls
  /\ GetOrCreateUserProfile(user_id)

EvictConverse(user_id, text) ==
  /\ clock < 2 * max_total_users + MaxEvictCalls
  /\ RememberConversation(user_id, text, "ok", "chat", "neutral", <<>>)

NextEvict ==
  \/ \E user_id \in EvictUsers : EvictCreate(user_id)
  \/ \E user_id \in EvictUsers : EvictConverse(user_id, HelloText)

SpecEvict == InitEvict /\ [][NextEvict]_vars

(***************************************************************************)
(* The scoring functions alone: analyze_emotion and classify_intent are    *)
(* called directly, on any text, in the state an earlier message left.     *)
(***************************************************************************)
\* the messages that may have been processed before
PriorTexts ==
  {HelloText, MaybeText, PhraseText({"can you help me?"}, 0),
   PhraseText({"make a game with music"}, 0)}

\* the least conversation_length _determine_style takes for a long conversation
\* (line 506: conversation_length > 5)
LongConversation == 6

\* what came before: nothing, one message of user "a", or a long conversation
Priors ==
  {[text |-> HelloText, calls |-> 0], [text |-> MaybeText, calls |-> LongConversation]}
    \cup {[text |-> text, calls |-> 1] : text \in PriorTexts}

\* the outcome s of a call, with the history h extended by it
Logged(h, s) == [g |-> s.g, l |-> s.l, h |-> Record(h, s.l)]

\* user "a" sends the text to the brain in the state before
Sent(before, text) ==
  Logged(before.h, Run([g |-> Tick(before.g), l |-> NewFrame(text, "a", None, 0)]))

RECURSIVE After(_, _)
\* the brain after user "a" has sent the text n times: its state, last frame and history
After(text, n) ==
  IF n = 0 THEN [g |-> FreshGlobals(0), l |-> IdleFrame, h |-> <<>>]
  ELSE Sent(After(text, n - 1), text)

InitScore ==
  /\ \E prior \in Priors :
       \E s \in {After(prior.text, prior.calls)} :
          /\ db = s.g.db
          /\ profiles = s.g.profiles
          /\ user_profiles = s.g.user_profiles
          /\ contexts = s.g.contexts
          /\ active_contexts = s.g.active_contexts
          /\ emotional_memory = s.g.emotional_memory
          /\ metrics = s.g.metrics
          /\ frames = <<s.l>>
          /\ history = s.h
  /\ clock = LongConversation
  /\ MemoryInit

\* the calls of a run follow the prior ones
ScoreCallsLeft == clock < LongConversation + MaxScoreCalls

\* emotional_engine.analyze_emotion(text, user_id)
AnalyzeEmotion(text, user_id) ==
  /\ ScoreCallsLeft
  /\ LET r == analyze_emotion(text, user_id, emotional_memory, clock + 1)
     IN /\ emotional_memory' = r.memory
        /\ frames' = <<[pc |-> "analyze_emotion", text |-> text, returned |-> r.state]>>
  /\ clock' = clock + 1
  /\ UNCHANGED <<db, profiles, user_profiles, contexts, active_contexts, metrics, history,
                 memory_vars>>

\* intent_classifier.classify_intent(text, context), the context being an existing one or,
\* for ref = NoRef, a new one; text.lower() raises AttributeError on a non-string
ClassifyIntent(text, ref) ==
  /\ ScoreCallsLeft
  /\ ref <= Len(contexts)
  /\ LET context == IF ref = NoRef THEN NewConversationContext("a", "default", clock + 1)
                    ELSE contexts[ref]
     IN frames' = <<IF text.isStr
                    THEN [pc |-> "classify_intent", text |-> text,
                          recent_intents |-> context.recent_intents,
                          candidates |-> ContextBoost(text, context),
                          intent_scores |-> IntentScores(text, context),
                          returned |-> classify_intent(text, context)]
                    ELSE [pc |-> "raised"]>>
  /\ clock' = clock + 1
  /\ UNCHANGED <<db, profiles, user_profiles, contexts, active_contexts, emotional_memory,
                 metrics, history, memory_vars>>

\* "i'm stuck"
StuckText ==
  [isStr |-> TRUE, name |-> "stuck", sub |-> {"stuck"}, polarity |-> 0, blank |-> FALSE]

\* "i want a puzzle"
WantText ==
  [isStr |-> TRUE, name |-> "want", sub |-> {"i want", "puzzle"}, polarity |-> 0,
   blank |-> FALSE]

ReplyTexts == {HelloText, MaybeText, StuckText, WantText, OkText, NoneText}

ReplyIntents == {"game_request", "media_request", "help_request", "chat"}

ReplyEmotions == {"excited", "frustrated", "uncertain", "curious", "neutral"}

ReplyIntensities == {One \div 2, One}

\* response_engine.generate_response(intent, emotional_state, context, user_profile,
\* message) for the context and the profile of user "a" and an emotional state of now
GenerateResponse(text, intent, emotion, intensity) ==
  /\ ScoreCallsLeft
  /\ "a" \in DOMAIN user_profiles
  /\ ContextKey("a", "default") \in DOMAIN active_contexts
  /\ LET emotional_state == [primary_emotion |-> emotion, intensity |-> intensity,
                             confidence |-> One \div 2, timestamp |-> clock]
         r == GenerateResponseCall(Globals, intent, emotional_state,
                                   active_contexts[ContextKey("a", "default")],
                                   user_profiles["a"], text)
     IN /\ SetGlobals([r.g EXCEPT !.clock = @ + 1])
        /\ frames' = <<[pc |-> "generate_response", text |-> text, intent |-> intent,
                        emotional_state |-> emotional_state, returned |-> r.returned]>>
  /\ UNCHANGED <<history, memory_vars>>

NextScore ==
  \/ \E text \in ScoreTexts : AnalyzeEmotion(text, "a")
  \/ \E text \in ScoreTexts, ref \in {NoRef, 1} : ClassifyIntent(text, ref)
  \/ \E text \in ReplyTexts, intent \in ReplyIntents, emotion \in ReplyEmotions,
        intensity \in ReplyIntensities : GenerateResponse(text, intent, emotion, intensity)

SpecScore == InitScore /\ [][NextScore]_vars
(***************************************************************************)
(* Turns of a conversation: one user, two sessions, messages whose intent  *)
(* depends on the turn before.                                             *)
(***************************************************************************)
\* "make a game with music", "can you help me?", "unique", "a unique error"
TurnTexts ==
  {PhraseText({"make a game with music"}, 0), PhraseText({"can you help me?"}, 0),
   UniqueText, UniqueErrorText}

TurnCall(text, session_id) ==
  /\ clock < MaxTurnCalls
  /\ RunCall(text, "a", session_id, 0)

NextTurns == \E text \in TurnTexts, session_id \in SessionIds : TurnCall(text, session_id)

SpecTurns == Init /\ [][NextTurns]_vars


(***************************************************************************)
(* Properties                                                              *)
(***************************************************************************)
\* the turn count of the context under key k, 0 while there is none
TurnCountIn(keys, heap, k) == IF k \in DOMAIN keys THEN heap[keys[k]].conversation_length ELSE 0

TurnCount(k) == TurnCountIn(active_contexts, contexts, k)

\* the utterances applied under key k so far
HistoryOf(k) == IF k \in DOMAIN history THEN history[k] ELSE <<>>

\* frame l is a process_message call that returned its normal result
ReturnedNormally(l) == l.pc = "done" /\ l.raised = None

\* frame l is a process_message call that returned from its exception handler
ReturnedFallback(l) == l.pc = "done" /\ l.raised # None

\* the last n entries of xs, all of them when there are fewer
Latest(xs, n) == IF Len(xs) > n THEN SubSeq(xs, Len(xs) - n + 1, Len(xs)) ELSE xs

RECURSIVE CountOf(_, _)
\* the number of utterances of user u in the list h
CountOf(h, u) ==
  IF h = <<>> THEN 0 ELSE (IF Head(h).user_id = u THEN 1 ELSE 0) + CountOf(Tail(h), u)

RECURSIVE SumOver(_, _)
\* the utterances of user u over the keys ks
SumOver(ks, u) ==
  IF ks = {} THEN 0
  ELSE LET k == CHOOSE x \in ks : TRUE IN CountOf(history[k], u) + SumOver(ks \ {k}, u)

\* the utterances processed for user u, over all the user's sessions
Processed(u) == SumOver(DOMAIN history, u)

\* C1: the turn count of a key never decreases, and a process_message call that
\* completes normally on a key raises that key's turn count by exactly 1
C1_TurnCountIncrements ==
  [][/\ \A k \in DOMAIN active_contexts :
          TurnCountIn(active_contexts', contexts', k) >= TurnCount(k)
     /\ ReturnedNormally(frames'[1]) =>
          TurnCountIn(active_contexts', contexts', FrameKey(frames'[1]))
             = TurnCount(FrameKey(frames'[1])) + 1]_vars

\* C1 witness: the same message sent twice under one key, the turn count now 2
C1_Witness ==
  /\ ReturnedNormally(frames[1])
  /\ TurnCount(FrameKey(frames[1])) = 2
  /\ Len(HistoryOf(FrameKey(frames[1]))) = 2
  /\ HistoryOf(FrameKey(frames[1]))[1] = HistoryOf(FrameKey(frames[1]))[2]

\* C2: under every key, recent_emotions and recent_intents hold at most 5 entries, and
\* they are the emotions and intents of the latest utterances of the key in arrival order
C2_RecentAreLatestFive ==
  \A k \in DOMAIN active_contexts :
    LET c == contexts[active_contexts[k]]
        h == HistoryOf(k)
    IN /\ Len(c.recent_emotions) <= 5
       /\ Len(c.recent_intents) <= 5
       /\ c.recent_emotions = Latest([i \in 1..Len(h) |-> h[i].emotion], 5)
       /\ c.recent_intents = Latest([i \in 1..Len(h) |-> h[i].intent], 5)

\* C2 witness: a key with more than five utterances whose oldest one, now dropped,
\* differs from the one after it
C2_Witness ==
  \E k \in DOMAIN active_contexts :
    /\ Len(HistoryOf(k)) > 5
    /\ history[k][1].emotion # history[k][2].emotion
    /\ history[k][1].intent # history[k][2].intent
    /\ Len(contexts[active_contexts[k]].recent_emotions) = 5

\* C3: the conversation_count of every user's profile is the number of utterances
\* processed for the user, over all the user's sessions
C3_CountIsProcessed ==
  \A u \in DOMAIN user_profiles : profiles[user_profiles[u]].conversation_count = Processed(u)

\* C3 witness: a user with two utterances in two different sessions
C3_Witness ==
  \E u \in DOMAIN user_profiles :
    /\ profiles[user_profiles[u]].conversation_count = 2
    /\ \E j, k \in DOMAIN history :
         j # k /\ CountOf(history[j], u) = 1 /\ CountOf(history[k], u) = 1

\* the store operations of a call: the labels at which TinyDB is read or written
StoreLabels == {"gcp216", "sp240", "sp241", "sp243"}

\* C7: a process_message call during which a store read or write fails still returns a
\* normal analysis result, not the intent "error" fallback
C7_StoreFailureTolerated ==
  \A i \in DOMAIN frames :
    (frames[i].pc = "done" /\ frames[i].raised \in StoreLabels) =>
      frames[i].result.intent # "error"

\* C8: a process_message call in which a step raised has returned the fixed fallback:
\* intent "error", confidence 0.5, emotion neutral with intensity 0.5 and confidence 0.5
C8_FallbackOnAnyError ==
  \A i \in DOMAIN frames :
    ReturnedFallback(frames[i]) =>
      /\ frames[i].result.intent = "error"
      /\ 2 * frames[i].result.confidence = One
      /\ frames[i].result.emotion.primary = "neutral"
      /\ 2 * frames[i].result.emotion.intensity = One
      /\ 2 * frames[i].result.emotion.confidence = One

\* C8 witness: the context update raised after the analysis had found another emotion
\* than neutral, and the call has returned
C8_Witness ==
  /\ ReturnedFallback(frames[1])
  /\ frames[1].uc_profile # NoRef
  /\ frames[1].emotional_state.primary_emotion = "excited"
  /\ frames[1].result.intent = "error"

\* C9: a call with the empty message returns intent "error" and leaves the turn count of
\* its key where it was (no utterance is applied to the context)
C9_EmptyMessageIsError ==
  \A i \in DOMAIN frames :
    (frames[i].pc = "done" /\ frames[i].text = EmptyText) =>
      /\ frames[i].result.intent = "error"
      /\ ~Applied(frames[i])

\* C10: when a call has returned normally (update_context returned), the first stored
\* document of its user, read back as get_or_create_profile reads it, is the in-memory
\* profile: same conversation_count, preferred_topics, emotional_patterns and the rest
C10_StoredEqualsMemory ==
  ReturnedNormally(frames[1]) =>
    LET u == frames[1].user_id
        user_data == DbSearch(db, u)
    IN /\ user_data # <<>>
       /\ u \in DOMAIN user_profiles
       /\ ProfileFromData(user_data[1]) = profiles[user_profiles[u]]
       /\ user_data[1].conversation_count = profiles[user_profiles[u]].conversation_count
       /\ user_data[1].preferred_topics = profiles[user_profiles[u]].preferred_topics
       /\ user_data[1].emotional_patterns = profiles[user_profiles[u]].emotional_patterns

\* C10 witness: after a restart, the first call of the new process has returned with the
\* user's second conversation: the profile it updated came from the store
C10_Witness ==
  /\ ReturnedNormally(frames[1])
  /\ metrics.total_conversations = 1
  /\ frames[1].user_id \in DOMAIN user_profiles
  /\ profiles[user_profiles[frames[1].user_id]].conversation_count = 2
  /\ Len(profiles[user_profiles[frames[1].user_id]].preferred_topics) = 2

\* every thread's call has returned
AllReturned == \A t \in Threads : frames[t].pc = "done"

\* C4: when two concurrent calls for a never-seen user have both returned normally, the
\* store holds exactly one document of the user and both calls used one profile object
C4_OneCanonicalProfile ==
  (\A t \in Threads : ReturnedNormally(frames[t])) =>
    /\ Len(DbSearch(db, "a")) = 1
    /\ \A s, t \in Threads : frames[s].user_profile = frames[t].user_profile

\* C5: when N concurrent calls on one key have all returned normally, the key's turn
\* count and the user's conversation_count are both N
C5_NoLostUpdate ==
  (\A t \in Threads : ReturnedNormally(frames[t])) =>
    /\ TurnCount(ContextKey("a", "default")) = MaxConcCalls
    /\ profiles[user_profiles["a"]].conversation_count = MaxConcCalls

\* the profile after the whole update of lines 275-286 for the utterance of frame l
Updated(p, l) ==
  [LearnProfile(p, l.intent, l.emotional_state) EXCEPT !.conversation_count = @ + 1]

RECURSIVE SerialFrom(_, _)
\* the profiles that whole updates by threads of ts, one after another, make of p
SerialFrom(p, ts) ==
  {p} \cup UNION {SerialFrom(Updated(p, frames[t]), ts \ {t}) : t \in ts}

\* what a reader of a profile sees of it
Observed(p) == <<p.conversation_count, p.preferred_topics, p.emotional_patterns>>

\* C6: after a call failed in its profile update (its save raised), with no increment
\* lost, every stored document of the user is a state between whole updates: the
\* state before or after each update, never a part of one
C6_NoPartialProfile ==
  LET applied == {t \in Threads : Applied(frames[t])}
      whole == {Observed(p) : p \in SerialFrom(NewUserProfile("a", clock), applied)}
  IN (/\ AllReturned
      /\ \E t \in applied : ReturnedFallback(frames[t])
      /\ \A s, t \in applied : frames[s].uc_profile = frames[t].uc_profile
      /\ \A t \in applied :
           profiles[frames[t].uc_profile].conversation_count = Cardinality(applied))
     => \A i \in 1..Len(db) : Observed(db[i]) \in whole

\* C11: every utterance applied to the context under a key was sent by the user whose
\* user_id the context carries, so two different (user_id, session_id) pairs never
\* share a context
C11_ContextOfOneUser ==
  \A k \in DOMAIN history :
    \A i \in 1..Len(history[k]) :
      k \in DOMAIN active_contexts =>
        history[k][i].user_id = contexts[active_contexts[k]].user_id

\* C12: SmartContextManager.user_profiles never tracks more than 1000 users
C12_AtMostThousandTracked == Cardinality(DOMAIN user_profiles) <= 1000

(***************************************************************************)
(* Properties of the memory system.                                        *)
(***************************************************************************)
\* the user ids tracked by a dict of profiles
Tracked(ps) == {ps[i].user_id : i \in 1..Len(ps)}

\* a step that creates a new user while max_total_users users are tracked
AdmitsAtCapacity ==
  /\ Len(memory_user_profiles) = max_total_users
  /\ Tracked(memory_user_profiles') \ Tracked(memory_user_profiles) # {}

\* the positions of the previously tracked users that the step keeps, and removes
KeptPositions ==
  LET after == Tracked(memory_user_profiles')
  IN {i \in 1..Len(memory_user_profiles) : memory_user_profiles[i].user_id \in after}

RemovedPositions == (1..Len(memory_user_profiles)) \ KeptPositions

\* the time of a user's last conversation; a user who never conversed counts as oldest
LastInteraction(p) == IF Truthy(p.last_interaction) THEN p.last_interaction.iso ELSE Epoch.iso

\* the time of a user's last conversation, or of the user's creation when there was none
LastActivity(p) ==
  IF Truthy(p.last_interaction) THEN p.last_interaction.iso ELSE p.first_interaction.iso

\* C13 as stated: when 1000 users are tracked and a new user is created, exactly 800 of
\* the previously tracked users remain and the 200 removed are those with the oldest
\* last_interaction.
C13_RemovesOldestLastInteraction ==
  [][AdmitsAtCapacity =>
       /\ Cardinality(KeptPositions) = 800
       /\ Cardinality(RemovedPositions) = 200
       /\ \A i \in RemovedPositions, j \in KeptPositions :
            LastInteraction(memory_user_profiles[i])
              <= LastInteraction(memory_user_profiles[j])]_vars

\* C13 amended: when 1000 users are tracked and a new user is created, exactly 800 of the
\* previously tracked users remain and the 200 removed are those whose last activity is
\* oldest, a user's last activity being last_interaction, or first_interaction for a user
\* who has never conversed.
C13_RemovesOldestActivity ==
  [][AdmitsAtCapacity =>
       /\ Cardinality(KeptPositions) = 800
       /\ Cardinality(RemovedPositions) = 200
       /\ \A i \in RemovedPositions, j \in KeptPositions :
            LastActivity(memory_user_profiles[i]) < LastActivity(memory_user_profiles[j])]_vars

\* after an eviction: the new user is tracked beside 800 others, among them a user who
\* never conversed and a user who conversed again, while user 501 is gone
C13_Witness ==
  /\ Len(memory_user_profiles) = 801
  /\ ManyUser(max_total_users + 1) \in Tracked(memory_user_profiles)
  /\ ManyUser(1) \in Tracked(memory_user_profiles)
  /\ ManyUser(501) \notin Tracked(memory_user_profiles)
  /\ \E i \in 1..Len(memory_user_profiles) :
       /\ memory_user_profiles[i].user_id = ManyUser(max_total_users)
       /\ ~Truthy(memory_user_profiles[i].last_interaction)

\* the conversation history of user_id in a dict of profiles, empty when not tracked
HistoryIn(ps, user_id) ==
  IF UserIndex(ps, user_id) = 0 THEN <<>> ELSE ps[UserIndex(ps, user_id)].conversation_history

\* the interaction count of user_id in a dict of profiles, 0 when not tracked
CountIn(ps, user_id) ==
  IF UserIndex(ps, user_id) = 0 THEN 0 ELSE ps[UserIndex(ps, user_id)].interaction_count

\* C14: a user's conversation_history never holds more than 100 entries, and every
\* remember_conversation call leaves it holding the most recent entries in call order:
\* the new entry comes last, the earlier entries keep their order, and once 100 are held
\* the oldest is dropped.
C14_HistoryHoldsLatestHundred ==
  [][\A u \in Tracked(memory_user_profiles') :
       LET old == HistoryIn(memory_user_profiles, u)
           new == HistoryIn(memory_user_profiles', u)
       IN /\ Len(old) <= 100
          /\ Len(new) <= 100
          /\ IF CountIn(memory_user_profiles', u) = CountIn(memory_user_profiles, u)
             THEN new = old
             ELSE /\ Len(new) = Min(Len(old) + 1, 100)
                  /\ new[Len(new)].timestamp = isoformat(DateTime(clock'))
                  /\ \A k \in 1..(Len(new) - 1) : new[k] = old[Len(old) + 1 - Len(new) + k]]_vars

\* a user has conversed more than 100 times and the history holds 100 entries, the
\* oldest of them later than the user's first conversation
C14_Witness ==
  \E i \in 1..Len(memory_user_profiles) :
    /\ memory_user_profiles[i].interaction_count > 100
    /\ Len(memory_user_profiles[i].conversation_history) = 100
    /\ memory_user_profiles[i].conversation_history[1].timestamp.iso
         > memory_user_profiles[i].first_interaction.iso

\* the preferences of user_id in a dict of profiles, none when not tracked
PreferencesIn(ps, user_id) ==
  IF UserIndex(ps, user_id) = 0 THEN <<>> ELSE ps[UserIndex(ps, user_id)].preferences

\* C15: every learned (category, preference) pair stays learned; its confidence is within
\* [0, 1]; a remember_conversation call of the user whose message contains the keyword
\* raises it by 0.1, capped at 1.0; every other call leaves it as it is; so it never
\* decreases.
C15_ConfidenceStrengthens ==
  [][\A u \in Tracked(memory_user_profiles) \cap Tracked(memory_user_profiles') :
       LET old == PreferencesIn(memory_user_profiles, u)
           new == PreferencesIn(memory_user_profiles', u)
           conversed == CountIn(memory_user_profiles', u) # CountIn(memory_user_profiles, u)
           said == HistoryIn(memory_user_profiles', u)
       IN /\ Len(new) >= Len(old)
          /\ \A i \in 1..Len(old) :
               /\ new[i].category = old[i].category
               /\ new[i].preference = old[i].preference
               /\ 0 <= new[i].confidence /\ new[i].confidence <= One
               /\ new[i].confidence >= old[i].confidence
               /\ IF conversed /\ old[i].preference \in said[Len(said)].message.sub
                  THEN new[i].confidence = Min(One, old[i].confidence + One \div 10)
                  ELSE new[i].confidence = old[i].confidence
          /\ \A i \in (Len(old) + 1)..Len(new) :
               0 <= new[i].confidence /\ new[i].confidence <= One]_vars

\* one user's preference has been strengthened up to the cap by more than five messages
\* with its keyword, another user's has been strengthened once
C15_Witness ==
  /\ \E p \in {PreferencesIn(memory_user_profiles, "a")} : \E i \in 1..Len(p) :
       /\ p[i].preference = "platformer" /\ p[i].confidence = One
       /\ CountIn(memory_user_profiles, "a") > 100
  /\ \E p \in {PreferencesIn(memory_user_profiles, "b")} : \E i \in 1..Len(p) :
       p[i].preference = "professional" /\ p[i].confidence = (7 * One) \div 10

(***************************************************************************)
(* Properties of the emotional engine and the response engine.             *)
(***************************************************************************)
\* frame l is a finished process_message call that called analyze_emotion (line 585)
Analysed(l) == l.pc = "done" /\ l.user_profile # NoRef

\* the emotional memory of user u in the dict m, empty while the user has none
MemoryOf(m, u) == IF u \in DOMAIN m THEN m[u] ELSE <<>>

\* C16: every analyze_emotion call appends the state it returns to the user's emotional
\* memory, which keeps the 5 most recent states in order.
C16_ReturnedStateRemembered ==
  [][Analysed(frames'[1]) =>
       MemoryOf(emotional_memory', frames'[1].user_id)
         = Latest(Append(MemoryOf(emotional_memory, frames'[1].user_id),
                         frames'[1].emotional_state), 5)]_vars

\* the successive values of a pattern: after its first k samples
ValueAfter(samples, k) == PatternValue(SubSeq(samples, 1, k))

\* the fraction a is less than the fraction b
FracLess(a, b) == a.num * b.den < b.num * a.den

\* every sample of the pattern is the same intensity
ConstantIntensity(samples) == \A i \in 1..Len(samples) : samples[i] = samples[1]

\* C17 as stated: while the utterances recorded under an emotion all have the same
\* intensity, the successive values of emotional_patterns[emotion] are strictly increasing
\* and bounded above by that intensity.
C17_StrictlyIncreasing ==
  \A i \in 1..Len(profiles) : \A e \in DOMAIN profiles[i].emotional_patterns :
    LET samples == profiles[i].emotional_patterns[e]
    IN ConstantIntensity(samples) =>
         \A k \in 1..(Len(samples) - 1) :
           /\ FracLess(ValueAfter(samples, k), ValueAfter(samples, k + 1))
           /\ ~FracLess(FloatFrac(samples[1]), ValueAfter(samples, k + 1))

\* C17 amended: while the utterances recorded under an emotion all have the same
\* intensity, every successive value of emotional_patterns[emotion] equals that intensity:
\* the sequence is constant, hence bounded above by the intensity but not increasing.
C17_ConstantAtIntensity ==
  \A i \in 1..Len(profiles) : \A e \in DOMAIN profiles[i].emotional_patterns :
    LET samples == profiles[i].emotional_patterns[e]
    IN ConstantIntensity(samples) =>
         \A k \in 1..Len(samples) : ValueAfter(samples, k) = FloatFrac(samples[1])

\* a profile whose neutral pattern was seeded and then smoothed twice with the same
\* intensity, by three consecutive utterances
C17_Witness ==
  \E i \in 1..Len(profiles) :
    /\ "neutral" \in DOMAIN profiles[i].emotional_patterns
    /\ Len(profiles[i].emotional_patterns["neutral"]) >= 3
    /\ ConstantIntensity(profiles[i].emotional_patterns["neutral"])
    /\ \E k \in DOMAIN active_contexts :
         /\ contexts[active_contexts[k]].user_id = profiles[i].user_id
         /\ Len(contexts[active_contexts[k]].recent_emotions) >= 3
         /\ \A n \in 1..3 :
              Latest(contexts[active_contexts[k]].recent_emotions, 3)[n] = "neutral"

\* C18: for every text and every prior state, analyze_emotion returns an intensity and a
\* confidence within [0, 1], and classify_intent returns a confidence within [0, 1].
C18_ScoresWithinUnit ==
  /\ frames[1].pc = "analyze_emotion" =>
       /\ 0 <= frames[1].returned.intensity /\ frames[1].returned.intensity <= One
       /\ 0 <= frames[1].returned.confidence /\ frames[1].returned.confidence <= One
  /\ frames[1].pc = "classify_intent" =>
       0 <= frames[1].returned.confidence /\ frames[1].returned.confidence <= One

\* both clamps are reached: an analysis of a text with many keywords returned, and stored,
\* a state with intensity 1.0 and confidence 1.0, and a classification returned
\* confidence 1.0
C18_Witness ==
  /\ "a" \in DOMAIN emotional_memory
  /\ emotional_memory["a"][1].intensity = One
  /\ emotional_memory["a"][1].confidence = One
  /\ frames[1].pc = "classify_intent"
  /\ frames[1].returned.confidence = One

\* C19: an analyze_emotion call that hits an internal error (the text is not a string, or
\* the user already has an emotional memory, whose slice at line 162 raises) returns to
\* its caller, and what it returns is the neutral state with intensity 0.5 and
\* confidence 0.5.
C19_ErrorGivesNeutral ==
  [][(/\ frames'[1].pc = "analyze_emotion"
      /\ ~frames'[1].text.isStr \/ "a" \in DOMAIN emotional_memory) =>
        /\ frames'[1].returned.primary_emotion = "neutral"
        /\ frames'[1].returned.intensity = One \div 2
        /\ frames'[1].returned.confidence = One \div 2
        /\ frames'[1].returned.timestamp = clock']_vars

\* an analysis of a string text with emotion words failed for a remembered user: it
\* returned the neutral state, which is not the state the memory holds
C19_Witness ==
  /\ frames[1].pc = "analyze_emotion"
  /\ frames[1].text.isStr
  /\ "so excited" \in frames[1].text.sub
  /\ "a" \in DOMAIN emotional_memory
  /\ emotional_memory["a"][Len(emotional_memory["a"])].timestamp < frames[1].returned.timestamp
  /\ frames[1].returned.primary_emotion = "neutral"

\* the fields of a Context that a reply could touch
ContextFields(context) ==
  <<context.conversation_length, context.recent_emotions, context.recent_intents,
    context.current_topic>>

\* the fields of a Profile that a reply could touch
ProfileFields(profile) ==
  <<profile.conversation_count, profile.preferred_topics, profile.emotional_patterns>>

\* C20: generate_response leaves the Context and the Profile it is given as they were:
\* the turn count, the recent emotions and intents, the current topic, the conversation
\* count, the preferred topics and the emotional patterns are the same after the call as
\* before it, whichever branch decides the reply (the except branch included)
C20_GenerateResponseLeavesUnchanged ==
  [][frames'[1].pc = "generate_response"
       => /\ Len(contexts') = Len(contexts)
          /\ Len(profiles') = Len(profiles)
          /\ \A i \in 1..Len(contexts) : ContextFields(contexts'[i]) = ContextFields(contexts[i])
          /\ \A i \in 1..Len(profiles) : ProfileFields(profiles'[i]) = ProfileFields(profiles[i])
          /\ active_contexts' = active_contexts
          /\ user_profiles' = user_profiles]_vars

\* a reply of emotional support has been generated in a long conversation
C20_Witness ==
  /\ frames[1].pc = "generate_response"
  /\ frames[1].returned.category = "emotional_support"
  /\ contexts[active_contexts[ContextKey("a", "default")]].conversation_length
       >= LongConversation
  /\ contexts[active_contexts[ContextKey("a", "default")]].recent_intents # <<>>
  /\ profiles[user_profiles["a"]].emotional_patterns # <<>>

\* the values of the scores
Values(scores) == {scores[i].v : i \in 1..Len(scores)}

\* C21: classify_intent returns ("chat", 0.6) when no intent scored or the highest score
\* is below 0.3, and otherwise an intent of the highest score with confidence
\* min(score, 1.0); it never returns another intent than chat with confidence below 0.3
C21_ThresholdOrWinner ==
  frames[1].pc = "classify_intent"
    => LET f == frames[1]
           scored == Values(f.intent_scores)
           highest == CHOOSE v \in scored : \A w \in scored : w <= v
       IN /\ IF scored = {} \/ 10 * highest < 3 * One
             THEN f.returned = [intent |-> "chat", confidence |-> (6 * One) \div 10]
             ELSE /\ \E i \in 1..Len(f.intent_scores) :
                       /\ f.intent_scores[i].k = f.returned.intent
                       /\ f.intent_scores[i].v = highest
                  /\ f.returned.confidence = IF highest < One THEN highest ELSE One
          /\ f.returned.intent # "chat" => 10 * f.returned.confidence >= 3 * One

\* a text whose intents all scored below 0.3 was classified as chat
C21_Witness ==
  /\ frames[1].pc = "classify_intent"
  /\ frames[1].intent_scores # <<>>
  /\ \A v \in Values(frames[1].intent_scores) : v > 0 /\ 10 * v < 3 * One
  /\ frames[1].returned.intent = "chat"

\* the score of an intent, 0 when it is no candidate
ScoreOf(scores, intent) ==
  IF \E i \in 1..Len(scores) : scores[i].k = intent
  THEN CHOOSE v \in Values(scores) : \E i \in 1..Len(scores) : scores[i] = [k |-> intent, v |-> v]
  ELSE 0

\* C22: for a message with a question mark classify_intent raises the help_request score
\* by exactly 0.2 when help_request scored from the lexicon and sets it to exactly 0.3
\* when it did not; the other scores, and every score of a message without a question
\* mark, are left as they were
C22_QuestionRaisesHelp ==
  frames[1].pc = "classify_intent"
    => LET f == frames[1]
           before == f.candidates
           after == f.intent_scores
           lexicon == ComputeLayer1(f.text)
           asked == "?" \in f.text.sub
       IN /\ \A intent \in (Keys(before) \cup Keys(after)) \ {"help_request"} :
               /\ intent \in Keys(before) \cap Keys(after)
               /\ ScoreOf(after, intent) = ScoreOf(before, intent)
          /\ ScoreOf(before, "help_request") = ScoreOf(lexicon, "help_request")
          /\ ScoreOf(after, "help_request") =
               IF ~asked THEN ScoreOf(lexicon, "help_request")
               ELSE IF "help_request" \in Keys(lexicon)
                    THEN ScoreOf(lexicon, "help_request") + (2 * One) \div 10
                    ELSE (3 * One) \div 10
          /\ "help_request" \in Keys(after) <=> asked \/ "help_request" \in Keys(lexicon)

\* a question in which help_request had scored was raised by 0.2 and won
C22_Witness ==
  /\ frames[1].pc = "classify_intent"
  /\ "?" \in frames[1].text.sub
  /\ ScoreOf(frames[1].candidates, "help_request") > 0
  /\ ScoreOf(frames[1].intent_scores, "help_request")
       = ScoreOf(frames[1].candidates, "help_request") + (2 * One) \div 10
  /\ Keys(frames[1].candidates) # {"help_request"}
  /\ frames[1].returned.intent = "help_request"

\* no emotion of the lexicon scores in the text
NoEmotionScored(text) ==
  \A i \in 1..Len(EmotionOrder) : EmotionScore(EmotionOrder[i], text) = 0

\* C23: when no lexicon emotion scores, the polarity lies in [-0.3, 0.3] and the text has
\* no question mark, analyze_emotion returns neutral with confidence 0.5 and intensity 0.5
C23_NeutralFallbackHalf ==
  /\ frames[1].pc = "analyze_emotion"
  /\ frames[1].text.isStr
  /\ NoEmotionScored(frames[1].text)
  /\ 10 * frames[1].text.polarity <= 3 * One
  /\ 10 * frames[1].text.polarity >= -3 * One
  /\ "?" \notin frames[1].text.sub
  => /\ frames[1].returned.primary_emotion = "neutral"
     /\ frames[1].returned.confidence = One \div 2
     /\ frames[1].returned.intensity = One \div 2

\* the emotions of the last two states of a memory
LastTwoEmotions(memory) ==
  {memory[i].primary_emotion : i \in {j \in 1..Len(memory) : j > Len(memory) - 2}}

\* the score of a candidate after the memory layer: times 1.1 for an emotion among the
\* last two remembered
Boosted(item, memory) ==
  IF item.k \in LastTwoEmotions(memory) THEN (11 * item.v) \div 10 ELSE item.v

\* C24: for a user with emotional memory, a candidate emotion equal to one of the user's
\* last 2 remembered emotions has its score multiplied by 1.1 before the winner is chosen
\* and the other candidates keep their scores: the state returned is that of the
\* greatest score so boosted
C24_RememberedEmotionBoosted ==
  [][/\ frames'[1].pc = "analyze_emotion"
     /\ frames'[1].text.isStr
     /\ "a" \in DOMAIN emotional_memory
     /\ \E i \in 1..Len(PatternScores(frames'[1].text)) :
          PatternScores(frames'[1].text)[i].k \in LastTwoEmotions(emotional_memory["a"])
     => LET scores == PatternScores(frames'[1].text)
            memory == emotional_memory["a"]
        IN \E i \in 1..Len(scores) :
             /\ \A j \in 1..Len(scores) : Boosted(scores[j], memory) <= Boosted(scores[i], memory)
             /\ frames'[1].returned.primary_emotion = scores[i].k
             /\ frames'[1].returned.confidence = Min(Boosted(scores[i], memory) \div 2, One)
             /\ frames'[1].returned.intensity = Min(Boosted(scores[i], memory) \div 3, One)]_vars

\* what a candidate gains after a turn of the intent last (the table of lines 371-375)
Gain(last, candidate) ==
  CASE last = "game_request" /\ candidate = "technical_question" -> (2 * One) \div 10
    [] last = "game_request" /\ candidate = "creative_brainstorm" -> One \div 10
    [] last = "media_request" /\ candidate = "creative_brainstorm" -> (2 * One) \div 10
    [] last = "media_request" /\ candidate = "technical_question" -> One \div 10
    [] last = "help_request" /\ candidate = "technical_question" -> (3 * One) \div 10
    [] OTHER -> 0

\* the intent of the turn before on the key, None on a key without turns
PreviousIntent(h, key) ==
  IF key \in DOMAIN h /\ h[key] # <<>> THEN h[key][Len(h[key])].intent ELSE None

\* C25: the relationship boost depends only on the intent of the previous turn of the
\* same Context and goes only to intents that scored: each candidate of the lexicon
\* gains what the table gives it after that intent (0.2 for technical_question and 0.1
\* for creative_brainstorm after game_request), nothing else becomes a candidate, and
\* the intent returned is the one classify_intent gives for a Context holding that
\* previous intent alone
C25_BoostFromPreviousTurn ==
  [][frames'[1].pc = "done" /\ Applied(frames'[1])
     => LET l == frames'[1]
            key == FrameKey(l)
            last == PreviousIntent(history, key)
            context == IF key \in DOMAIN active_contexts
                       THEN contexts[active_contexts[key]]
                       ELSE NewConversationContext(l.user_id, SessionOrDefault(l.session_id), 0)
            lexicon == ComputeLayer1(l.text)
            boosted == ContextBoost(l.text, context)
            alone == [context EXCEPT !.recent_intents = IF last = None THEN <<>> ELSE <<last>>]
        IN /\ Keys(boosted) = Keys(lexicon)
           /\ \A k \in Keys(lexicon) : ScoreOf(boosted, k) = ScoreOf(lexicon, k) + Gain(last, k)
           /\ [intent |-> l.intent, confidence |-> l.confidence] = classify_intent(l.text, alone)]_vars

\* "a unique error" was classified technical_question with 0.27 + 0.2 after a turn of
\* game_request that followed a turn of help_request, while the last turn of the other
\* session was a help_request
C25_Witness ==
  /\ frames[1].pc = "done"
  /\ frames[1].text = UniqueErrorText
  /\ frames[1].intent = "technical_question"
  /\ frames[1].confidence = (47 * One) \div 100
  /\ Len(history[FrameKey(frames[1])]) = 3
  /\ history[FrameKey(frames[1])][1].intent = "help_request"
  /\ history[FrameKey(frames[1])][2].intent = "game_request"
  /\ \E key \in DOMAIN history \ {FrameKey(frames[1])} :
       PreviousIntent(history, key) = "help_request"

\* C26: in every Context the recent emotions and the recent intents are equally many,
\* min(turn count, 5), and once a turn was taken the current topic is the last of the
\* recent intents
C26_RecentListsFollowTurnCount ==
  \A i \in 1..Len(contexts) :
    LET c == contexts[i]
    IN /\ Len(c.recent_emotions) = Len(c.recent_intents)
       /\ Len(c.recent_intents) = Min(c.conversation_length, 5)
       /\ c.conversation_length > 0 => c.current_topic = c.recent_intents[Len(c.recent_intents)]

\* a Context after more than five turns, the last two of different intents, beside a
\* Context of another session with fewer than five turns
C26_Witness ==
  \E i, j \in 1..Len(contexts) :
    /\ contexts[i].conversation_length > 5
    /\ Len(contexts[i].recent_intents) = 5
    /\ contexts[i].recent_intents[4] # contexts[i].recent_intents[5]
    /\ contexts[i].current_topic = contexts[i].recent_intents[5]
    /\ contexts[j].conversation_length = 1
    /\ Len(contexts[j].recent_emotions) = 1

\* the documents of a user in the store
RecordsOf(store, user_id) == {i \in 1..Len(store) : store[i].user_id = user_id}

\* C27: with calls made one after another the store holds at most one document per user:
\* a save rewrites the user's document where there is one and adds a document only for a
\* user who has none
C27_OneRecordPerUser ==
  [][/\ \A i \in 1..Len(db') : Cardinality(RecordsOf(db', db'[i].user_id)) = 1
     /\ Len(db') >= Len(db)
     /\ \A i \in 1..Len(db) : db'[i].user_id = db[i].user_id
     /\ \A i \in (Len(db) + 1)..Len(db') :
          /\ RecordsOf(db, db'[i].user_id) = {}
          /\ i = Len(db) + 1]_vars

\* after two calls of a user the store holds the user's one document, rewritten by the
\* saves of the second call
C27_Witness ==
  /\ Len(db) = 1
  /\ db[1].conversation_count = 2
  /\ frames[1].pc = "done"

\* the documents of a user in the store, in order
DocumentsOf(store, user_id) == SelectSeq(store, LAMBDA d : d.user_id = user_id)

\* the users known to the brain or to the store
KnownUsers ==
  DOMAIN user_profiles \cup DOMAIN emotional_memory \cup {db[i].user_id : i \in 1..Len(db)}

\* C28: a process_message call for a user leaves the Profile of every other user, the
\* object in memory and the document in the store, and the emotional memory of every
\* other user as they were
C28_OtherUsersUntouched ==
  [][frames'[1].pc = "done"
     => \A u \in (KnownUsers \cup UserIds) \ {frames'[1].user_id} :
          /\ u \in DOMAIN user_profiles' <=> u \in DOMAIN user_profiles
          /\ u \in DOMAIN user_profiles
               => /\ user_profiles'[u] = user_profiles[u]
                  /\ profiles'[user_profiles[u]] = profiles[user_profiles[u]]
          /\ DocumentsOf(db', u) = DocumentsOf(db, u)
          /\ u \in DOMAIN emotional_memory' <=> u \in DOMAIN emotional_memory
          /\ u \in DOMAIN emotional_memory => emotional_memory'[u] = emotional_memory[u]]_vars

\* a call of user "a" has been applied to the Context that user "a_b" opened, while
\* "a_b" has a Profile, a document and an emotional memory
C28_Witness ==
  /\ Applied(frames[1])
  /\ frames[1].user_id = "a"
  /\ contexts[frames[1].uc_context].user_id = "a_b"
  /\ "a_b" \in DOMAIN user_profiles
  /\ profiles[user_profiles["a_b"]].conversation_count = 1
  /\ "a_b" \in DOMAIN emotional_memory
  /\ DocumentsOf(db, "a_b") # <<>>
  /\ DocumentsOf(db, "a") # <<>>

RECURSIVE SumFrom(_, _)
\* the sum of the values of a dict from its i-th item on
SumFrom(items, i) == IF i > Len(items) THEN 0 ELSE items[i].v + SumFrom(items, i + 1)

\* the sum of the counters kept under a key of personality_insights, 0 without the key
CounterTotal(insights, key) == IF key \in DOMAIN insights THEN SumFrom(insights[key], 1) ELSE 0

\* C29: for every tracked user, interaction_count is the number of remember_conversation
\* calls made for the user since the profile was created, the conversation history holds
\* min(interaction_count, 100) entries, and the emotion counters and the intent counters
\* of personality_insights each add up to interaction_count
C29_CountsAgreeWithCalls ==
  \A i \in 1..Len(memory_user_profiles) :
    LET p == memory_user_profiles[i]
        calls == CallsSince(history, memory_user_profiles, p.user_id)
    IN /\ p.interaction_count = Len(calls)
       /\ Len(p.conversation_history) = Min(p.interaction_count, max_conversation_history)
       /\ CounterTotal(p.personality_insights, "emotions") = p.interaction_count
       /\ CounterTotal(p.personality_insights, "intents") = p.interaction_count

\* a user has conversed more than 100 times with two emotions and two intents, beside a
\* user who has conversed once and a history of one entry
C29_Witness ==
  \E i, j \in 1..Len(memory_user_profiles) :
    /\ memory_user_profiles[i].interaction_count > max_conversation_history
    /\ Len(memory_user_profiles[i].personality_insights["emotions"]) = 2
    /\ Len(memory_user_profiles[i].personality_insights["intents"]) = 2
    /\ memory_user_profiles[j].interaction_count = 1
    /\ Len(memory_user_profiles[j].conversation_history) = 1

\* the users a step starts to track
Admitted == Tracked(memory_user_profiles') \ Tracked(memory_user_profiles)

\* C30: no call of get_or_create_user_profile or remember_conversation leaves more than
\* 1000 users tracked, and a call that admits a new user while 1000 are tracked leaves the
\* new user tracked beside 800 of the previous users, 801 users in all
C30_NewUserSurvivesEviction ==
  [][/\ Cardinality(Tracked(memory_user_profiles')) <= max_total_users
     /\ Len(memory_user_profiles') = Cardinality(Tracked(memory_user_profiles'))
     /\ AdmitsAtCapacity =>
          /\ Cardinality(Admitted) = 1
          /\ Cardinality(KeptPositions) = KeptUsers
          /\ Cardinality(Tracked(memory_user_profiles')) = KeptUsers + 1]_vars

\* a user admitted at capacity by remember_conversation is tracked with its first
\* conversation, and 801 users are tracked
C30_Witness ==
  /\ Len(memory_user_profiles) = KeptUsers + 1
  /\ \E i \in 1..Len(memory_user_profiles) :
       /\ memory_user_profiles[i].user_id = ManyUser(max_total_users + 1)
       /\ memory_user_profiles[i].interaction_count = 1
=============================================================================
